---- MODULE Spec2Model ----
(***************************************************************************)
(* A model of the MCP vehicle-catalog server (src/server/main.py,          *)
(* src/server/tools.py, src/server/models.py): the JSON-RPC dispatcher     *)
(* mcp_endpoint, the request-validation handler, the tool registry and the *)
(* seven catalog tools; and of its command-line agent                      *)
(* (src/client/main.py, src/client/mcp_client.py, src/client/llm.py): the  *)
(* text functions that read the model's output, the retrying tool          *)
(* invoker and the conversation loop.                                      *)
(***************************************************************************)
EXTENDS Integers, Sequences, FiniteSets, TLC

VARIABLES
    pydanticV2,   \* which pydantic major version is installed (fixed per run)
    catalog,      \* rows of table "veiculo", in storage order
    dbOk,         \* whether db.execute succeeds while the request is handled
    phase,        \* "idle" | "handling" | "done"
    body,         \* the HTTP request body being handled
    handledBy,    \* which handler produced the outcome
    outcome,      \* what the handler did with the request
    registry,     \* the module-level dict MCP_METHODS, as it stands
    requests,     \* the requests being handled at the same time
    \* the text functions of the agent, applied to one model output
    sample,       \* the model output, and the tool call it encodes if any
    tstep,        \* "input" | "parsed" | "stripped" | "restripped"
    parsedCall,   \* parse_tool_call(sample.text)
    extracted,    \* extract_final_response(sample.text)
    cleaned,      \* clean_llm_response(extracted)
    recleaned,    \* the same two functions applied to cleaned
    \* call_tool_with_retries
    retry,        \* the frame of the call in progress
    \* main_async
    apc,          \* where the conversation loop stands
    conversation, \* the transcript
    last_vehicle_list, \* the module-level list behind "o id do 2"
    user_input,   \* what the user typed in this turn
    llm_response, \* what llm.chat returned first in this turn
    tool_call,    \* parse_tool_call(llm_response)
    shown,        \* what this turn has printed for the user
    turn          \* ghost: turns started, model calls and tool turns of this turn

serverVars == <<pydanticV2, catalog, dbOk, phase, body, handledBy, outcome, registry,
                requests>>
textVars   == <<sample, tstep, parsedCall, extracted, cleaned, recleaned>>
agentVars  == <<apc, conversation, last_vehicle_list, user_input, llm_response,
                tool_call, shown, turn>>
clientVars == <<textVars, retry, agentVars>>
vars       == <<serverVars, clientVars>>

(***************************************************************************)
(* Bounds                                                                  *)
(***************************************************************************)
MaxVehicles == 3

(***************************************************************************)
(* JSON / Python values.  A value is a tagged record; "absent" stands for  *)
(* a key that is not in the enclosing object.                              *)
(***************************************************************************)
JV(t, s, n, l) == [t |-> t, s |-> s, n |-> n, l |-> l]
JAbsent  == JV("absent", "", 0, <<>>)
JNull    == JV("null", "", 0, <<>>)
JStr(s)  == JV("str", s, 0, <<>>)
JInt(n)  == JV("int", "", n, <<>>)
JList(l) == JV("list", "", 0, l)

\* dict.get(key): a missing key reads as None
PyGet(v) == IF v.t = "absent" THEN JNull ELSE v

\* Python truthiness of a value
Truthy(v) ==
    CASE v.t = "str"  -> v.s # ""
      [] v.t = "int"  -> v.n # 0
      [] v.t = "list" -> v.l # <<>>
      [] OTHER        -> FALSE

\* a list or a dict cannot be hashed, so it cannot be looked up in a dict
Hashable(v) == v.t # "list"

RECURSIVE JoinQuoted(_)
JoinQuoted(l) ==
    IF l = <<>> THEN ""
    ELSE "'" \o Head(l) \o "'" \o (IF Len(l) > 1 THEN ", " ELSE "") \o JoinQuoted(Tail(l))

\* str(v), as an f-string interpolates it
PyStr(v) ==
    CASE v.t = "str"  -> v.s
      [] v.t = "int"  -> ToString(v.n)
      [] v.t = "list" -> "[" \o JoinQuoted(v.l) \o "]"
      [] OTHER        -> "None"

\* a dict is a function from its keys to values
EmptyDict == [k \in {} |-> JNull]
DictGet(d, k) == IF k \in DOMAIN d THEN d[k] ELSE JAbsent

(***************************************************************************)
(* Request bodies                                                          *)
(***************************************************************************)
\* the "arguments" member of params: absent, null, a list, or an object
Args(t, d) == [t |-> t, d |-> d]
ArgsAbsent  == Args("absent", EmptyDict)
ArgsNull    == Args("null", EmptyDict)
ArgsList    == Args("list", EmptyDict)
ArgsDict(d) == Args("dict", d)

\* params: absent, null, an empty or non-empty list, or an object with an
\* optional "name", an optional "arguments" and further keys "d"
Params(t, name, arguments, d) == [t |-> t, name |-> name, arguments |-> arguments, d |-> d]
ParamsAbsent    == Params("absent", JAbsent, ArgsAbsent, EmptyDict)
ParamsNull      == Params("null", JAbsent, ArgsAbsent, EmptyDict)
ParamsEmptyList == Params("emptylist", JAbsent, ArgsAbsent, EmptyDict)
ParamsList      == Params("list", JAbsent, ArgsAbsent, EmptyDict)
ParamsCall(name, arguments) == Params("dict", name, arguments, EmptyDict)
ParamsDict(d)   == Params("dict", JAbsent, ArgsAbsent, d)

ParamsTruthy(p) ==
    CASE p.t = "list" -> TRUE
      [] p.t = "dict" -> p.name.t # "absent" \/ p.arguments.t # "absent" \/ DOMAIN p.d # {}
      [] OTHER        -> FALSE

\* the whole params object read as a mapping (used by the direct routes)
ParamsAsDict(p) == p.d

Body(kind, jsonrpc, method, params, id) ==
    [kind |-> kind, jsonrpc |-> jsonrpc, method |-> method, params |-> params, id |-> id]
NotJsonBody == Body("notjson", JAbsent, JAbsent, ParamsAbsent, JAbsent)
ArrayBody   == Body("array", JAbsent, JAbsent, ParamsAbsent, JAbsent)
Envelope(jsonrpc, method, params, id) == Body("object", jsonrpc, method, params, id)

(***************************************************************************)
(* Exceptions: an operation either returns a value or raises               *)
(***************************************************************************)
Ok(v)      == [exc |-> FALSE, msg |-> "", v |-> v]
Raise(msg) == [exc |-> TRUE, msg |-> msg, v |-> <<>>]

(***************************************************************************)
(* src/server/models.py                                                    *)
(***************************************************************************)
\* row i of the table; the columns of Veiculo
Veiculo(i) ==
    [id               |-> "uuid-" \o ToString(i),
     marca            |-> IF i % 2 = 1 THEN "Ford" ELSE "Toyota",
     modelo           |-> IF i % 2 = 1 THEN "Ka" ELSE "Corolla",
     ano_fabricacao   |-> 2018 + i,
     ano_modelo       |-> 2019 + i,
     motorizacao      |-> 10 + i,
     tipo_combustivel |-> "Flex",
     cor              |-> IF i <= 2 THEN "Preto" ELSE "Azul",
     quilometragem    |-> 20000 * i,
     numero_portas    |-> 4,
     tipo_transmissao |-> "Manual",
     preco            |-> 40000 + 10000 * i]

Catalogs == { [i \in 1..n |-> Veiculo(i)] : n \in 0..MaxVehicles }

\* VehicleResult.from_orm
VehicleResult_from_orm(v) ==
    [id               |-> v.id,
     brand            |-> v.marca,
     model            |-> v.modelo,
     year_manufacture |-> v.ano_fabricacao,
     year_model       |-> v.ano_modelo,
     engine           |-> v.motorizacao,
     fuel_type        |-> v.tipo_combustivel,
     color            |-> v.cor,
     km               |-> v.quilometragem,
     doors            |-> v.numero_portas,
     transmission     |-> v.tipo_transmissao,
     price            |-> v.preco]

\* decimal strings that int() and float() accept, with their values
DecimalStrings == [s \in {"2020"} |-> 2020]

\* pydantic validation of one Optional[str] field: result, or "error"
StrField(v, v2) ==
    CASE v.t \in {"absent", "null"} -> Ok(JNull)
      [] v.t = "str"                -> Ok(v)
      [] v.t = "int"                -> IF v2 THEN Raise("str type expected")
                                       ELSE Ok(JStr(ToString(v.n)))
      [] OTHER                      -> Raise("str type expected")

\* pydantic validation of one Optional[int] or Optional[float] field
NumField(v) ==
    CASE v.t \in {"absent", "null"} -> Ok(JNull)
      [] v.t = "int"                -> Ok(v)
      [] v.t = "str"                -> IF v.s \in DOMAIN DecimalStrings
                                       THEN Ok(JInt(DecimalStrings[v.s]))
                                       ELSE Raise("value is not a valid number")
      [] OTHER                      -> Raise("value is not a valid number")

VehicleFilterStrFields == {"search_text", "brand", "model", "fuel_type", "color", "transmission"}
VehicleFilterNumFields == {"year_min", "year_max", "price_min", "price_max", "km_min", "km_max", "doors"}
VehicleFilterFields == VehicleFilterStrFields \cup VehicleFilterNumFields

\* VehicleFilter with extra = "forbid": a key that is not a field is an error
VehicleFilter_forbid(d, v2) ==
    LET field(k) == IF k \in VehicleFilterStrFields
                    THEN StrField(DictGet(d, k), v2) ELSE NumField(DictGet(d, k))
        bad == {k \in VehicleFilterFields : field(k).exc}
    IN  IF bad # {} \/ ~(DOMAIN d \subseteq VehicleFilterFields)
        THEN Raise("validation error for VehicleFilter")
        ELSE Ok([k \in VehicleFilterFields |-> field(k).v])

\* VehicleFilter(**arguments): keys that are not fields are ignored
VehicleFilter(d, v2) ==
    LET field(k) == IF k \in VehicleFilterStrFields
                    THEN StrField(DictGet(d, k), v2) ELSE NumField(DictGet(d, k))
        bad == {k \in VehicleFilterFields : field(k).exc}
    IN  IF bad # {} THEN Raise("validation error for VehicleFilter")
        ELSE Ok([k \in VehicleFilterFields |-> field(k).v])

(***************************************************************************)
(* src/server/tools.py; db is [rows, ok]                                   *)
(***************************************************************************)
RECURSIVE Distinct(_)
\* SELECT DISTINCT: each value once, in order of first occurrence
Distinct(l) ==
    IF l = <<>> THEN <<>>
    ELSE LET front == Distinct(SubSeq(l, 1, Len(l) - 1))
             last  == l[Len(l)]
         IN  IF \E i \in DOMAIN front : front[i] = last THEN front ELSE Append(front, last)

SeqMin(l) == CHOOSE x \in {l[i] : i \in DOMAIN l} : \A i \in DOMAIN l : x <= l[i]
SeqMax(l) == CHOOSE x \in {l[i] : i \in DOMAIN l} : \A i \in DOMAIN l : x >= l[i]

buscar_veiculos(db, filters) ==
    LET Match(v) ==
            /\ Truthy(filters.brand)        => v.marca = filters.brand.s
            /\ Truthy(filters.model)        => v.modelo = filters.model.s
            /\ Truthy(filters.year_min)     => v.ano_fabricacao >= filters.year_min.n
            /\ Truthy(filters.year_max)     => v.ano_fabricacao <= filters.year_max.n
            /\ Truthy(filters.price_min)    => v.preco >= filters.price_min.n
            /\ Truthy(filters.price_max)    => v.preco <= filters.price_max.n
            /\ Truthy(filters.km_min)       => v.quilometragem >= filters.km_min.n
            /\ Truthy(filters.km_max)       => v.quilometragem <= filters.km_max.n
            /\ Truthy(filters.fuel_type)    => v.tipo_combustivel = filters.fuel_type.s
            /\ Truthy(filters.color)        => v.cor = filters.color.s
            /\ Truthy(filters.doors)        => v.numero_portas = filters.doors.n
            /\ Truthy(filters.transmission) => v.tipo_transmissao = filters.transmission.s
        veiculos == SelectSeq(db.rows, Match)
    IN  IF ~db.ok THEN Raise("database error")
        ELSE Ok([i \in DOMAIN veiculos |-> VehicleResult_from_orm(veiculos[i])])

\* the brand query without DISTINCT
listar_marcas_all(db) ==
    IF ~db.ok THEN Raise("database error")
    ELSE Ok([brands |-> [i \in DOMAIN db.rows |-> db.rows[i].marca]])

listar_marcas(db) ==
    IF ~db.ok THEN Raise("database error")
    ELSE Ok([brands |-> Distinct([i \in DOMAIN db.rows |-> db.rows[i].marca])])

\* brands is the Python value passed in: None, a list of names, or anything else
listar_modelos(db, brands) ==
    LET InBrands(v) == \E i \in DOMAIN brands.l : brands.l[i] = v.marca
        rows == IF Truthy(brands) THEN SelectSeq(db.rows, InBrands) ELSE db.rows
    IN  IF Truthy(brands) /\ brands.t # "list" THEN Raise("IN expression list expected")
        ELSE IF ~db.ok THEN Raise("database error")
        ELSE Ok([models |-> Distinct([i \in DOMAIN rows |-> rows[i].modelo])])

obter_range_anos(db) ==
    LET anos == [i \in DOMAIN db.rows |-> db.rows[i].ano_fabricacao]
    IN  IF ~db.ok THEN Raise("database error")
        ELSE IF anos = <<>> THEN Raise("validation error for YearRangeOut")
        ELSE Ok([min_year |-> SeqMin(anos), max_year |-> SeqMax(anos)])

obter_range_precos(db) ==
    LET precos == [i \in DOMAIN db.rows |-> db.rows[i].preco]
    IN  IF ~db.ok THEN Raise("database error")
        ELSE IF precos = <<>> THEN Raise("float() argument must be a string or a number, not 'NoneType'")
        ELSE Ok([min_price |-> SeqMin(precos), max_price |-> SeqMax(precos)])

obter_range_km(db) ==
    LET kms == [i \in DOMAIN db.rows |-> db.rows[i].quilometragem]
    IN  IF ~db.ok THEN Raise("database error")
        ELSE IF kms = <<>> THEN Raise("int() argument must be a string or a number, not 'NoneType'")
        ELSE Ok([min_km |-> SeqMin(kms), max_km |-> SeqMax(kms)])

listar_cores_disponiveis(db) ==
    IF ~db.ok THEN Raise("database error")
    ELSE Ok([cores |-> Distinct([i \in DOMAIN db.rows |-> db.rows[i].cor])])

(***************************************************************************)
(* src/server/main.py: the envelope models                                 *)
(***************************************************************************)
None    == [some |-> FALSE, v |-> <<>>]
Some(v) == [some |-> TRUE, v |-> v]

\* JSONRPCRequest(**payload): jsonrpc is Literal["2.0"], method is str,
\* params is Optional[Any], id is Any (required by pydantic 2 only)
JSONRPCRequest(payload, v2) ==
    LET method == StrField(payload.method, v2)
        valid  == /\ payload.jsonrpc = JStr("2.0")
                  /\ payload.method.t \notin {"absent", "null"}
                  /\ ~method.exc
                  /\ v2 => payload.id.t # "absent"
    IN  IF payload.kind # "object" THEN Raise("argument after ** must be a mapping")
        ELSE IF ~valid THEN Raise("validation error for JSONRPCRequest")
        ELSE Ok([method |-> method.v.s, params |-> payload.params, id |-> PyGet(payload.id)])

\* JSONRPCError(code=, message=, data=)
JSONRPCError(code, message, data) == [code |-> code, message |-> message, data |-> data]

\* JSONRPCResponse(result=, error=, id=); id is a Python value, None included
JSONRPCResponse(result, error, id) == [jsonrpc |-> "2.0", result |-> result, error |-> error, id |-> id]

NoErrorContent == [members |-> {}, code |-> 0, message |-> "", data |-> ""]
NoContent == [members |-> {}, jsonrpc |-> "", result |-> <<>>, error |-> NoErrorContent, id |-> JNull]

\* .dict() without exclude_none: every member is emitted, None as null
DictKeepNone(r) ==
    [members |-> {"jsonrpc", "result", "error", "id"},
     jsonrpc |-> r.jsonrpc,
     result  |-> r.result.v,
     error   |-> IF r.error.some
                 THEN [members |-> {"code", "message", "data"},
                       code    |-> r.error.v.code,
                       message |-> r.error.v.message,
                       data    |-> IF r.error.v.data.some THEN r.error.v.data.v ELSE ""]
                 ELSE NoErrorContent,
     id      |-> r.id]

\* .dict(exclude_none=True): a member whose value is None is left out, at every depth
DictExcludeNone(r) ==
    [members |-> {"jsonrpc"} \cup (IF r.result.some THEN {"result"} ELSE {})
                             \cup (IF r.error.some THEN {"error"} ELSE {})
                             \cup (IF r.id.t # "null" THEN {"id"} ELSE {}),
     jsonrpc |-> r.jsonrpc,
     result  |-> r.result.v,
     error   |-> IF r.error.some
                 THEN [members |-> {"code", "message"}
                                     \cup (IF r.error.v.data.some THEN {"data"} ELSE {}),
                       code    |-> r.error.v.code,
                       message |-> r.error.v.message,
                       data    |-> IF r.error.v.data.some THEN r.error.v.data.v ELSE ""]
                 ELSE NoErrorContent,
     id      |-> r.id]

\* what a handler did with a request: a JSONResponse, or an exception that
\* left the handler; invoked lists the tool handlers called, consulted tells
\* whether MCP_METHODS was looked into
JSONResponse(status, content, invoked, consulted) ==
    [kind |-> "response", status |-> status, content |-> content,
     invoked |-> invoked, consulted |-> consulted, exc |-> ""]
Escaped(msg, invoked, consulted) ==
    [kind |-> "raised", status |-> 0, content |-> NoContent,
     invoked |-> invoked, consulted |-> consulted, exc |-> msg]
NoOutcome == [kind |-> "none", status |-> 0, content |-> NoContent,
              invoked |-> <<>>, consulted |-> FALSE, exc |-> ""]

\* validation_exception_handler: body.get("id") fails on a body that is not
\* an object or not JSON, and the id then reads as None
validation_exception_handler(payload) ==
    LET req_id == IF payload.kind = "object" THEN PyGet(payload.id) ELSE JNull
    IN  JSONResponse(400,
            DictExcludeNone(JSONRPCResponse(None,
                Some(JSONRPCError(-32600, "Invalid Request", Some("exc.errors()"))), req_id)),
            <<>>, FALSE)

(***************************************************************************)
(* The registry and the two catalogs the endpoint lists                    *)
(***************************************************************************)
\* the registry with a tool added that the tools/list literal does not mention
MCP_METHODS_unlisted ==
    <<"buscar_veiculos", "listar_marcas", "listar_modelos", "obter_range_anos",
      "obter_range_precos", "listar_cores_disponiveis", "obter_range_km", "contar_veiculos">>

MCP_METHODS ==
    <<"buscar_veiculos", "listar_marcas", "listar_modelos", "obter_range_anos",
      "obter_range_precos", "listar_cores_disponiveis", "obter_range_km">>

\* what mcp_endpoint leaves in MCP_METHODS: no statement of it assigns to
\* the dict or to one of its keys
RegistryAfter_pop(reg, payload) == IF reg = <<>> THEN reg ELSE Tail(reg)
RegistryAfter(reg, payload) == reg

\* the keys of MCP_METHODS at the moment a request looks into it
RegisteredTools == {registry[i] : i \in DOMAIN registry}

NoProperties == [k \in {} |-> ""]

\* the literal of the tools/list branch: name and inputSchema.properties
tools ==
    <<[name |-> "buscar_veiculos",
       properties |-> [k \in VehicleFilterFields |->
           IF k \in VehicleFilterStrFields THEN "string"
           ELSE IF k \in {"price_min", "price_max"} THEN "number" ELSE "integer"]],
      [name |-> "listar_marcas", properties |-> NoProperties],
      [name |-> "listar_modelos", properties |-> [k \in {"brands"} |-> "array"]],
      [name |-> "obter_range_anos", properties |-> NoProperties],
      [name |-> "obter_range_precos", properties |-> NoProperties],
      [name |-> "listar_cores_disponiveis", properties |-> NoProperties],
      [name |-> "obter_range_km", properties |-> NoProperties]>>

Arg(name, required) == [name |-> name, required |-> required]

\* the literal of the prompts/list branch: name and arguments
prompts ==
    <<[name |-> "search_intro", arguments |-> <<>>],
      [name |-> "filters_summary", arguments |-> <<Arg("filters", TRUE)>>],
      [name |-> "search_result_summary",
       arguments |-> <<Arg("vehicle_count", TRUE), Arg("min_price", FALSE), Arg("max_price", FALSE),
                       Arg("min_km", FALSE), Arg("max_km", FALSE)>>],
      [name |-> "no_results", arguments |-> <<Arg("filters", FALSE)>>],
      [name |-> "vehicle_details", arguments |-> <<Arg("vehicle", TRUE)>>],
      [name |-> "suggest_more_filters", arguments |-> <<Arg("suggested_filters", FALSE)>>],
      [name |-> "action_confirmation", arguments |-> <<Arg("action", TRUE)>>]>>

(***************************************************************************)
(* src/server/main.py: mcp_endpoint                                        *)
(***************************************************************************)
ErrorContent(code, message, data, id) ==
    DictExcludeNone(JSONRPCResponse(None, Some(JSONRPCError(code, message, data)), id))
ResultContent(result, id) ==
    DictExcludeNone(JSONRPCResponse(Some(result), None, id))

\* the last except clause of mcp_endpoint; bound tells whether the local
\* variable payload was assigned before the exception was raised
OuterExcept(payload, bound, msg, invoked, consulted) ==
    LET req_id == IF payload.kind = "object" THEN PyGet(payload.id) ELSE JNull
    IN  IF ~bound
        THEN Escaped("UnboundLocalError: local variable 'payload' referenced before assignment",
                     invoked, consulted)
        ELSE JSONResponse(500, ErrorContent(-32603, "Internal error", Some(msg), req_id),
                          invoked, consulted)

\* the tools/call branch without its try block: the exception goes on
InnerExcept_reraise(req, msg, invoked) == Escaped(msg, invoked, TRUE)

\* the except clause of the try block inside the tools/call branch
InnerExcept(req, msg, invoked) ==
    JSONResponse(500, ErrorContent(-32603, "Internal error: " \o msg, None, req.id), invoked, TRUE)

\* the unknown-tool answer sent with the default status of JSONResponse
ToolNotFound_ok(req, name) ==
    JSONResponse(200, ErrorContent(-32601, "Tool not found: " \o PyStr(name), None, req.id),
                 <<>>, TRUE)
ToolNotFound(req, name) ==
    JSONResponse(400, ErrorContent(-32601, "Tool not found: " \o PyStr(name), None, req.id),
                 <<>>, TRUE)

\* the unknown-method answer given with the code of an invalid request
MethodNotFound_as_invalid(req) ==
    JSONResponse(400, ErrorContent(-32600, "Method not found: " \o req.method, None, req.id),
                 <<>>, TRUE)

MethodNotFound(req) ==
    JSONResponse(400, ErrorContent(-32601, "Method not found: " \o req.method, None, req.id),
                 <<>>, TRUE)

\* name = req.params.get("name") if req.params else None
ParamsName(p) == IF ParamsTruthy(p) THEN PyGet(p.name) ELSE JNull

\* arguments = req.params.get("arguments") if req.params else {}
\* (an absent member and a null member both read as None)
ParamsArguments(p) ==
    IF ~ParamsTruthy(p) THEN ArgsDict(EmptyDict)
    ELSE IF p.arguments.t = "absent" THEN ArgsNull ELSE p.arguments

Called(r, name) == [exc |-> r.exc, msg |-> r.msg, v |-> r.v, invoked |-> <<name>>, found |-> TRUE]
NotCalled(msg)  == [exc |-> TRUE, msg |-> msg, v |-> <<>>, invoked |-> <<>>, found |-> TRUE]

\* the if/elif chain inside the try block of the tools/call branch
ToolsCallInvoke(name, arguments, db, v2) ==
    CASE name = "buscar_veiculos" ->
            IF arguments.t # "dict" THEN NotCalled("argument after ** must be a mapping")
            ELSE LET filters == VehicleFilter(arguments.d, v2)
                 IN  IF filters.exc THEN NotCalled(filters.msg)
                     ELSE Called(buscar_veiculos(db, filters.v), name)
      [] name = "listar_marcas" -> Called(listar_marcas(db), name)
      [] name = "listar_modelos" ->
            IF arguments.t # "dict" THEN NotCalled("object has no attribute 'get'")
            ELSE Called(listar_modelos(db, PyGet(DictGet(arguments.d, "brands"))), name)
      [] name = "obter_range_anos" -> Called(obter_range_anos(db), name)
      [] name = "obter_range_precos" -> Called(obter_range_precos(db), name)
      [] name = "listar_cores_disponiveis" -> Called(listar_cores_disponiveis(db), name)
      [] name = "obter_range_km" -> Called(obter_range_km(db), name)
      [] OTHER -> [exc |-> FALSE, msg |-> "", v |-> <<>>, invoked |-> <<>>, found |-> FALSE]

\* if req.method == "tools/call"
ToolsCallRoute(payload, req, db, v2) ==
    LET p         == req.params
        name      == ParamsName(p)
        arguments == ParamsArguments(p)
        call      == ToolsCallInvoke(name.s, arguments, db, v2)
    IN  IF ParamsTruthy(p) /\ p.t # "dict"
        THEN OuterExcept(payload, TRUE, "'list' object has no attribute 'get'", <<>>, FALSE)
        ELSE IF ~Hashable(name)
        THEN OuterExcept(payload, TRUE, "unhashable type: 'list'", <<>>, TRUE)
        ELSE IF ~(name.t = "str" /\ name.s \in RegisteredTools) THEN ToolNotFound(req, name)
        ELSE IF ~call.found THEN ToolNotFound(req, name)
        ELSE IF call.exc THEN InnerExcept(req, call.msg, call.invoked)
        ELSE JSONResponse(200, ResultContent(call.v, req.id), call.invoked, TRUE)

\* if req.method == "tools/list"
ToolsListRoute(req) ==
    JSONResponse(200, ResultContent([tools |-> tools], req.id), <<>>, FALSE)

\* if req.method == "prompts/list"
PromptsListRoute(req) ==
    JSONResponse(200, ResultContent([prompts |-> prompts], req.id), <<>>, FALSE)

Pad3(n) == IF n < 10 THEN "00" \o ToString(n) ELSE IF n < 100 THEN "0" \o ToString(n) ELSE ToString(n)

RECURSIVE FormatThousands(_)
\* f"{n:,}" for n >= 0
FormatThousands(n) ==
    IF n < 1000 THEN ToString(n)
    ELSE FormatThousands(n \div 1000) \o "," \o Pad3(n % 1000)

PromptResult(description, prompt_text) ==
    [description |-> description, messages |-> <<[role |-> "assistant", content |-> prompt_text]>>]

\* if req.method == "prompts/get"; a rendered text is the sequence of its pieces
PromptsGetRoute(payload, req) ==
    LET p         == req.params
        name      == ParamsName(p)
        arguments == ParamsArguments(p)
        d         == arguments.d
        user_name == IF "user_name" \in DOMAIN d THEN d["user_name"] ELSE JStr("")
        vehicle_count == IF "vehicle_count" \in DOMAIN d THEN d["vehicle_count"] ELSE JInt(0)
        min_km    == PyGet(DictGet(d, "min_km"))
        max_km    == PyGet(DictGet(d, "max_km"))
        found     == <<"Encontrei ", PyStr(vehicle_count), " veiculo(s) compativel(is) com sua busca.">>
    IN  IF ParamsTruthy(p) /\ p.t # "dict"
        THEN OuterExcept(payload, TRUE, "'list' object has no attribute 'get'", <<>>, FALSE)
        ELSE IF name = JStr("car_search_intro")
        THEN IF arguments.t # "dict"
             THEN OuterExcept(payload, TRUE, "object has no attribute 'get'", <<>>, FALSE)
             ELSE IF Truthy(user_name) /\ user_name.t # "str"
             THEN OuterExcept(payload, TRUE, "can only concatenate str to str", <<>>, FALSE)
             ELSE JSONResponse(200, ResultContent(PromptResult("Prompt de introducao",
                      <<"Ola">> \o (IF Truthy(user_name) THEN <<", ", user_name.s>> ELSE <<>>)
                        \o <<"! Vamos encontrar o carro ideal para voce. Me conte o que procura!">>),
                      req.id), <<>>, FALSE)
        ELSE IF name = JStr("car_search_result")
        THEN IF arguments.t # "dict"
             THEN OuterExcept(payload, TRUE, "object has no attribute 'get'", <<>>, FALSE)
             ELSE IF min_km.t # "null" /\ max_km.t # "null"
             THEN IF min_km.t # "int" \/ max_km.t # "int"
                  THEN OuterExcept(payload, TRUE, "Cannot specify ',' with 's'.", <<>>, FALSE)
                  ELSE JSONResponse(200, ResultContent(PromptResult("Prompt de resultado",
                           found \o <<" A quilometragem dos veiculos disponiveis varia de ",
                                      FormatThousands(min_km.n), " km a ",
                                      FormatThousands(max_km.n), " km.", " Veja os detalhes abaixo.">>),
                           req.id), <<>>, FALSE)
             ELSE JSONResponse(200, ResultContent(PromptResult("Prompt de resultado",
                      found \o <<" Veja os detalhes abaixo.">>), req.id), <<>>, FALSE)
        ELSE JSONResponse(200, ErrorContent(-32602, "Unknown prompt name", None, req.id), <<>>, FALSE)

\* the tail of mcp_endpoint: the method itself names a tool
DirectRoute(payload, req, db, v2) ==
    LET p       == req.params
        filters == VehicleFilter(ParamsAsDict(p), v2)
        brands  == IF ParamsTruthy(p) THEN PyGet(DictGet(ParamsAsDict(p), "brands")) ELSE JNull
        Finish(r, name) ==
            IF r.exc THEN OuterExcept(payload, TRUE, r.msg, <<name>>, TRUE)
            ELSE JSONResponse(200, ResultContent(r.v, req.id), <<name>>, TRUE)
    IN  IF req.method \notin RegisteredTools THEN MethodNotFound(req)
        ELSE CASE req.method = "buscar_veiculos" ->
                    IF ParamsTruthy(p) /\ p.t # "dict"
                    THEN OuterExcept(payload, TRUE, "argument after ** must be a mapping", <<>>, TRUE)
                    ELSE IF filters.exc THEN OuterExcept(payload, TRUE, filters.msg, <<>>, TRUE)
                    ELSE Finish(buscar_veiculos(db, filters.v), req.method)
               [] req.method = "listar_marcas" -> Finish(listar_marcas(db), req.method)
               [] req.method = "listar_modelos" ->
                    IF ParamsTruthy(p) /\ p.t # "dict"
                    THEN OuterExcept(payload, TRUE, "'list' object has no attribute 'get'", <<>>, TRUE)
                    ELSE Finish(listar_modelos(db, brands), req.method)
               [] req.method = "obter_range_anos" -> Finish(obter_range_anos(db), req.method)
               [] req.method = "obter_range_precos" -> Finish(obter_range_precos(db), req.method)
               [] OTHER -> MethodNotFound(req)

\* POST /mcp
mcp_endpoint(payload, db, v2) ==
    LET parsed == JSONRPCRequest(payload, v2)
        req    == parsed.v
    IN  IF payload.kind = "notjson"
        THEN OuterExcept(payload, FALSE, "Expecting value: line 1 column 1 (char 0)", <<>>, FALSE)
        ELSE IF parsed.exc THEN OuterExcept(payload, TRUE, parsed.msg, <<>>, FALSE)
        ELSE CASE req.method = "tools/list"   -> ToolsListRoute(req)
               [] req.method = "prompts/list" -> PromptsListRoute(req)
               [] req.method = "prompts/get"  -> PromptsGetRoute(payload, req)
               [] req.method = "tools/call"   -> ToolsCallRoute(payload, req, db, v2)
               [] OTHER                       -> DirectRoute(payload, req, db, v2)

(***************************************************************************)
(* The requests the model sends                                            *)
(***************************************************************************)
Ids == {JAbsent, JNull, JInt(7), JStr("req-1")}

ListedPrompts == {prompts[i].name : i \in DOMAIN prompts}
RenderedPrompts == {"car_search_intro", "car_search_result"}

ToolArgDicts ==
    { EmptyDict,
      "brand" :> JStr("Ford"),
      "brand" :> JStr("Ford") @@ "verbose" :> JInt(1),
      "brand" :> JInt(7),
      "year_min" :> JStr("abc"),
      "year_min" :> JStr("2020"),
      "year_min" :> JInt(2020) @@ "price_max" :> JInt(60000),
      "color" :> JStr("Azul"),
      "brands" :> JList(<<"Ford">>),
      "brands" :> JList(<<"Ford">>) @@ "verbose" :> JInt(1),
      "brands" :> JStr("Ford") }

PromptArgDicts ==
    { EmptyDict,
      "filters" :> JStr("cor=Azul"),
      "vehicle" :> JStr("Ka"),
      "action" :> JStr("filtrar"),
      "vehicle_count" :> JInt(3),
      "user_name" :> JStr("Ana"),
      "user_name" :> JInt(7),
      "vehicle_count" :> JInt(3) @@ "min_km" :> JInt(1000) @@ "max_km" :> JInt(25000),
      "vehicle_count" :> JInt(3) @@ "min_km" :> JStr("1000") @@ "max_km" :> JInt(25000) }

Arguments(dicts) == {ArgsAbsent, ArgsNull, ArgsList} \cup {ArgsDict(d) : d \in dicts}

ToolNames ==
    {JAbsent, JNull, JInt(5), JList(<<"listar_marcas">>), JStr("apagar_veiculos"),
     JStr("search_intro")} \cup {JStr(n) : n \in RegisteredTools}

PromptNames ==
    {JAbsent, JNull, JList(<<"search_intro">>), JStr("listar_marcas")}
        \cup {JStr(n) : n \in ListedPrompts \cup RenderedPrompts}

OtherParams == {ParamsAbsent, ParamsNull, ParamsEmptyList, ParamsList}

ToolsCallParams ==
    OtherParams \cup {ParamsCall(n, a) : n \in ToolNames, a \in Arguments(ToolArgDicts)}

PromptsGetParams ==
    OtherParams \cup {ParamsCall(n, a) : n \in PromptNames, a \in Arguments(PromptArgDicts)}

DirectParams ==
    OtherParams \cup {ParamsDict(d) : d \in ToolArgDicts}
                \cup {ParamsCall(JStr("listar_marcas"), ArgsDict(EmptyDict))}

OtherMethods ==
    {JAbsent, JNull, JInt(5), JStr(""), JStr("resources/list"), JStr("tools/list"), JStr("prompts/list")}
        \cup {JStr(n) : n \in RegisteredTools}

Bodies ==
    {NotJsonBody, ArrayBody}
    \cup {Envelope(JStr("2.0"), JStr("tools/call"), p, i) : p \in ToolsCallParams, i \in Ids}
    \cup {Envelope(JStr("2.0"), JStr("prompts/get"), p, i) : p \in PromptsGetParams, i \in Ids}
    \cup {Envelope(JStr("2.0"), m, p, i) : m \in OtherMethods, p \in DirectParams, i \in Ids}
    \cup {Envelope(j, m, p, i) :
            j \in {JAbsent, JNull, JStr("1.0")},
            m \in {JAbsent, JStr("tools/list"), JStr("tools/call"), JStr("prompts/get"), JStr("listar_marcas")},
            p \in {ParamsAbsent, ParamsCall(JStr("listar_marcas"), ArgsDict(EmptyDict)),
                   ParamsCall(JStr("car_search_intro"), ArgsDict(EmptyDict))},
            i \in Ids}

NoBody == Body("none", JAbsent, JAbsent, ParamsAbsent, JAbsent)

(***************************************************************************)
(* The server as a state machine                                           *)
(***************************************************************************)
\* the text functions are not running
TextOff ==
    /\ sample = <<>> /\ tstep = "off" /\ parsedCall = <<>>
    /\ extracted = <<>> /\ cleaned = <<>> /\ recleaned = <<>>

\* the agent is not running
AgentOff ==
    /\ apc = "off" /\ conversation = <<>> /\ last_vehicle_list = <<>>
    /\ user_input = <<>> /\ llm_response = <<>> /\ tool_call = <<>>
    /\ shown = <<>> /\ turn = <<>>

Init ==
    /\ pydanticV2 \in BOOLEAN
    /\ catalog \in Catalogs
    /\ dbOk = TRUE
    /\ phase = "idle"
    /\ body = NoBody
    /\ handledBy = "none"
    /\ outcome = NoOutcome
    /\ registry = MCP_METHODS
    /\ requests = <<>>
    /\ TextOff /\ retry = <<>> /\ AgentOff

\* a POST /mcp arrives; the database is up or down while it is handled
Receive ==
    /\ phase = "idle"
    /\ \E b \in Bodies, ok \in BOOLEAN :
          /\ body' = b
          /\ dbOk' = ok
    /\ phase' = "handling"
    /\ UNCHANGED <<pydanticV2, catalog, handledBy, outcome, registry, requests, clientVars>>

\* the route function runs
McpEndpoint ==
    /\ phase = "handling"
    /\ outcome' = mcp_endpoint(body, [rows |-> catalog, ok |-> dbOk], pydanticV2)
    /\ registry' = RegistryAfter(registry, body)
    /\ handledBy' = "mcp_endpoint"
    /\ phase' = "done"
    /\ UNCHANGED <<pydanticV2, catalog, dbOk, body, requests, clientVars>>

\* FastAPI rejects the request before the route function runs and calls the
\* registered RequestValidationError handler instead
ValidationExceptionHandler ==
    /\ phase = "handling"
    /\ outcome' = validation_exception_handler(body)
    /\ handledBy' = "validation_exception_handler"
    /\ phase' = "done"
    /\ UNCHANGED <<pydanticV2, catalog, dbOk, body, registry, requests, clientVars>>

\* the transport sends what the handler produced and the request is over
Respond ==
    /\ phase = "done"
    /\ phase' = "idle"
    /\ body' = NoBody
    /\ dbOk' = TRUE
    /\ handledBy' = "none"
    /\ outcome' = NoOutcome
    /\ UNCHANGED <<pydanticV2, catalog, registry, requests, clientVars>>

Next == Receive \/ McpEndpoint \/ ValidationExceptionHandler \/ Respond

Spec == Init /\ [][Next]_vars

(***************************************************************************)
(* Vocabulary of the properties                                            *)
(***************************************************************************)
\* mcp_endpoint has finished handling the request in body
Handled == phase = "done" /\ handledBy = "mcp_endpoint"

\* the envelope the specification calls valid: version "2.0", a non-empty
\* string method, and an id member
ValidEnvelope ==
    /\ body.kind = "object"
    /\ body.jsonrpc = JStr("2.0")
    /\ body.method.t = "str" /\ body.method.s # ""
    /\ body.id.t # "absent"

MethodIs(m) == ValidEnvelope /\ body.method = JStr(m)

\* params is an object or is left out
ParamsIsObjectOrAbsent == body.params.t \in {"absent", "null", "dict"}

NamesRegisteredTool == body.params.t = "dict" /\ body.params.name.t = "str"
                       /\ body.params.name.s \in RegisteredTools

IsResponse == outcome.kind = "response"
HasResult  == IsResponse /\ "result" \in outcome.content.members
HasError   == IsResponse /\ "error" \in outcome.content.members
ErrorCodeIs(c) == HasError /\ outcome.content.error.code = c

(***************************************************************************)
(* Properties                                                              *)
(***************************************************************************)
\* C1: a tools/call whose params.name is not a key of MCP_METHODS (a missing
\* name included) is answered with error -32601 and no tool handler runs.
C1_UnknownToolIsNotFound ==
    (Handled /\ MethodIs("tools/call") /\ ParamsIsObjectOrAbsent /\ ~NamesRegisteredTool)
        => (ErrorCodeIs(-32601) /\ outcome.invoked = <<>>)

\* C2: for a valid tools/list envelope the names in result.tools are exactly
\* the keys of MCP_METHODS, and a tools/call runs a handler or returns a
\* result only for a name that tools/list lists.
C2_ToolsListIsTheRegistry ==
    Handled =>
        /\ MethodIs("tools/list") =>
              /\ HasResult
              /\ {outcome.content.result.tools[i].name :
                      i \in DOMAIN outcome.content.result.tools} = RegisteredTools
        /\ (MethodIs("tools/call") /\ (outcome.invoked # <<>> \/ HasResult)) =>
              /\ body.params.name.t = "str"
              /\ body.params.name.s \in {tools[i].name : i \in DOMAIN tools}

C2_Witness ==
    /\ Handled /\ MethodIs("tools/list") /\ HasResult
    /\ Len(outcome.content.result.tools) = Len(MCP_METHODS)

\* C3: an envelope whose version is missing or not "2.0", or whose method is
\* missing, not a string or empty, is answered with error -32600 without the
\* registry being consulted or a handler being run.
C3_InvalidEnvelopeIsInvalidRequest ==
    (/\ Handled
     /\ body.kind = "object"
     /\ \/ body.jsonrpc # JStr("2.0")
        \/ body.method.t # "str"
        \/ body.method = JStr(""))
        => (ErrorCodeIs(-32600) /\ ~outcome.consulted /\ outcome.invoked = <<>>)

\* the tools/call of the request raises during argument validation or in the handler
ToolInvocationRaises ==
    ToolsCallInvoke(body.params.name.s, ParamsArguments(body.params),
                    [rows |-> catalog, ok |-> dbOk], pydanticV2).exc

\* C4: when a tools/call names a registered tool and argument validation or
\* the handler raises, the answer is error -32603; the exception never
\* leaves mcp_endpoint and no other error code is used for such a call.
C4_ToolExceptionIsInternalError ==
    (Handled /\ MethodIs("tools/call") /\ NamesRegisteredTool) =>
        /\ IsResponse
        /\ ToolInvocationRaises => (ErrorCodeIs(-32603) /\ ~HasResult)
        /\ HasError => outcome.content.error.code = -32603

C4_Witness ==
    /\ Handled /\ MethodIs("tools/call") /\ NamesRegisteredTool
    /\ ToolInvocationRaises /\ outcome.invoked # <<>>
    /\ ErrorCodeIs(-32603)

\* C5: an error -32603 given because a handler or a renderer raised (in
\* tools/call, prompts/get or a tool method routed directly) has a data
\* member holding the exception's message.
C5_InternalErrorCarriesData ==
    (/\ Handled
     /\ MethodIs("tools/call") \/ MethodIs("prompts/get")
            \/ (ValidEnvelope /\ body.method.s \in RegisteredTools)
     /\ body.params.t = "dict"
     /\ ErrorCodeIs(-32603))
        => ("data" \in outcome.content.error.members /\ outcome.content.error.data # "")

\* C6: whatever body reaches mcp_endpoint (not JSON, JSON that is not an
\* object, an invalid envelope, a well-formed one), the endpoint returns a
\* JSON-RPC response and no exception leaves it.
C6_NoExceptionEscapes == Handled => IsResponse

\* C7: every response of mcp_endpoint and of the validation handler has
\* exactly one of the members result and error.
C7_ExactlyOneOfResultAndError ==
    (phase = "done" /\ IsResponse) => (HasResult <=> ~HasError)

C7_Witness ==
    /\ phase = "done" /\ HasResult /\ ~HasError
    /\ MethodIs("tools/call") /\ outcome.invoked = <<"listar_cores_disponiveis">>

\* C8: when the body is a JSON object with an id, the response has an id
\* member equal to it, whatever the value (null included).
C8_IdIsEchoed ==
    (Handled /\ body.kind = "object" /\ body.id.t # "absent" /\ IsResponse)
        => ("id" \in outcome.content.members /\ outcome.content.id = body.id)

\* the names of the arguments a listed prompt declares as required
RequiredArguments(name) ==
    UNION { {prompts[i].arguments[j].name :
                j \in {k \in DOMAIN prompts[i].arguments : prompts[i].arguments[k].required}} :
            i \in {k \in DOMAIN prompts : prompts[k].name = name} }

RenderedText == outcome.content.result.messages[1].content

\* C9: for a prompt that prompts/list lists with a required argument,
\* prompts/get answers -32602 when the argument is omitted, and with it
\* present returns messages[0].content containing the value verbatim.
C9_RequiredPromptArgument ==
    (/\ Handled /\ MethodIs("prompts/get")
     /\ body.params.t = "dict" /\ body.params.name.t = "str"
     /\ body.params.name.s \in ListedPrompts
     /\ RequiredArguments(body.params.name.s) # {}
     /\ body.params.arguments.t = "dict")
        => LET d == body.params.arguments.d
               required == RequiredArguments(body.params.name.s)
           IN  /\ (required \cap DOMAIN d = {}) => ErrorCodeIs(-32602)
               /\ (required \subseteq DOMAIN d) =>
                     /\ HasResult
                     /\ \A a \in required :
                           \E i \in DOMAIN RenderedText : RenderedText[i] = PyStr(d[a])

\* the request in body with "arguments": {} added to its params
WithEmptyArguments ==
    [body EXCEPT !.params = ParamsCall(body.params.name, ArgsDict(EmptyDict))]

\* C10: a tools/call or prompts/get with a known name and no arguments member
\* is handled exactly like the same request with arguments {}.
C10_MissingArgumentsIsEmpty ==
    (/\ Handled
     /\ body.params.t = "dict" /\ body.params.arguments.t = "absent"
     /\ \/ MethodIs("tools/call") /\ NamesRegisteredTool
        \/ MethodIs("prompts/get") /\ body.params.name.t = "str"
             /\ body.params.name.s \in RenderedPrompts)
        => outcome = mcp_endpoint(WithEmptyArguments, [rows |-> catalog, ok |-> dbOk], pydanticV2)

\* C11: a valid envelope whose method is none of the four structural methods
\* and not a registered tool name is answered -32601 and runs no handler.
C11_UnknownMethodIsNotFound ==
    (/\ Handled /\ ValidEnvelope
     /\ body.method.s \notin {"tools/list", "tools/call", "prompts/list", "prompts/get"}
     /\ body.method.s \notin RegisteredTools)
        => (ErrorCodeIs(-32601) /\ outcome.invoked = <<>>)

C11_Witness ==
    /\ Handled /\ MethodIs("resources/list") /\ body.params.t = "dict"
    /\ ErrorCodeIs(-32601) /\ outcome.status = 400

\* what the handler of the tool named in params returns for the arguments
\* and the catalog of the request
HandlerReturn ==
    LET name == body.params.name.s
        args == ParamsArguments(body.params)
        db   == [rows |-> catalog, ok |-> dbOk]
    IN  CASE name = "buscar_veiculos" ->
                IF args.t # "dict" \/ VehicleFilter(args.d, pydanticV2).exc
                THEN Raise("arguments")
                ELSE buscar_veiculos(db, VehicleFilter(args.d, pydanticV2).v)
          [] name = "listar_marcas" -> listar_marcas(db)
          [] name = "listar_modelos" ->
                IF args.t # "dict" THEN Raise("arguments")
                ELSE listar_modelos(db, PyGet(DictGet(args.d, "brands")))
          [] name = "obter_range_anos" -> obter_range_anos(db)
          [] name = "obter_range_precos" -> obter_range_precos(db)
          [] name = "listar_cores_disponiveis" -> listar_cores_disponiveis(db)
          [] name = "obter_range_km" -> obter_range_km(db)

DeclaredParameters(name) ==
    UNION {DOMAIN tools[i].properties : i \in {k \in DOMAIN tools : tools[k].name = name}}

\* the request in body with the undeclared keys removed from its arguments
WithoutExtraKeys ==
    LET d    == body.params.arguments.d
        keep == DOMAIN d \cap DeclaredParameters(body.params.name.s)
    IN  [body EXCEPT !.params.arguments = ArgsDict([k \in keep |-> d[k]])]

\* C13: a tools/call whose arguments hold keys the tool does not declare has
\* the outcome of the same call without those keys; they never cause an error.
C13_ExtraArgumentsAreDropped ==
    (/\ Handled /\ MethodIs("tools/call") /\ NamesRegisteredTool
     /\ body.params.arguments.t = "dict")
        => outcome = mcp_endpoint(WithoutExtraKeys, [rows |-> catalog, ok |-> dbOk], pydanticV2)

C13_Witness ==
    /\ Handled /\ MethodIs("tools/call") /\ body.params.name = JStr("buscar_veiculos")
    /\ body.params.arguments.t = "dict"
    /\ "verbose" \in DOMAIN body.params.arguments.d
    /\ "brand" \in DOMAIN body.params.arguments.d
    /\ HasResult /\ Len(outcome.content.result) = 1 /\ Len(catalog) = 2

(***************************************************************************)
(* src/client/main.py: text.  A text is a sequence of tokens.  Every       *)
(* character the regular expressions of the client name is a token of its  *)
(* own; a run of other characters (a word) is one token.  The words the    *)
(* patterns name are always whole tokens.                                  *)
(***************************************************************************)
Whitespace == {" ", "\n", "\r", "\t"}
LineBreaks == {"\n", "\r"}

\* the token at position i, "" past either end of the text
At(text, i) == IF i \in 1..Len(text) THEN text[i] ELSE ""

\* str.lower() on the words of the vocabulary
Lower(w) ==
    CASE w = "TOOL_CALL"   -> "tool_call"
      [] w = "Buscando"    -> "buscando"
      [] w = "Consultando" -> "consultando"
      [] w = "EXIT"        -> "exit"
      [] w = "UUID"        -> "uuid"
      [] OTHER             -> w

\* the literal lit stands at position i (re.IGNORECASE when ci)
LitAt(text, i, lit, ci) ==
    \A k \in 1..Len(lit) :
        (IF ci THEN Lower(At(text, i + k - 1)) ELSE At(text, i + k - 1)) = lit[k]

\* \s* from position i: the position of the first token that is not
\* whitespace (Len(text) + 1 when there is none)
RECURSIVE SkipWs(_, _)
SkipWs(text, i) ==
    IF At(text, i) \in Whitespace THEN SkipWs(text, i + 1) ELSE i

\* the least element of a set of positions, 0 for the empty set
FirstIn(S) == IF S = {} THEN 0 ELSE CHOOSE x \in S : \A y \in S : x <= y

OpenTag  == <<"<", "tool_call", ">">>
CloseTag == <<"<", "/", "tool_call", ">">>
\* the token of the grave accent, which a TLA+ string cannot hold
Grave    == "GRAVE"
Fence    == <<Grave, Grave, Grave>>
ProgressWords == {"executando", "buscando", "consultando", "verificando"}

NoMatch == [found |-> FALSE, from |-> 0, to |-> 0]
Match(from, to) == [found |-> TRUE, from |-> from, to |-> to]

\* r'<tool_call>\s*({[\s\S]+?})\s*</tool_call>' at position i: group 1
DelimitedAt(text, i) ==
    IF ~LitAt(text, i, OpenTag, FALSE) THEN NoMatch
    ELSE LET b == SkipWs(text, i + 3)
             j == FirstIn({e \in (b + 2)..Len(text) :
                             /\ text[e] = "}"
                             /\ LitAt(text, SkipWs(text, e + 1), CloseTag, FALSE)})
         IN  IF At(text, b) = "{" /\ j # 0 THEN Match(b, j) ELSE NoMatch

\* r'({\s*"name"\s*:\s*"[^"]+".*?\})' with re.DOTALL at position i
BareAt(text, i) ==
    IF At(text, i) # "{" THEN NoMatch
    ELSE LET k == SkipWs(text, i + 1)
             c == SkipWs(text, k + 3)
             q == SkipWs(text, c + 1)
             z == FirstIn({e \in (q + 1)..Len(text) : text[e] = "\""})
             j == FirstIn({e \in (z + 1)..Len(text) : text[e] = "}"})
         IN  IF /\ LitAt(text, k, <<"\"", "name", "\"">>, FALSE)
                /\ At(text, c) = ":"
                /\ At(text, q) = "\""
                /\ z >= q + 2
                /\ j # 0
             THEN Match(i, j) ELSE NoMatch

\* r'<tool_call>[\s\S]*?</tool_call>' with re.IGNORECASE at position i
BlockAt(text, i) ==
    IF ~LitAt(text, i, OpenTag, TRUE) THEN NoMatch
    ELSE LET j == FirstIn({e \in (i + 3)..Len(text) : LitAt(text, e, CloseTag, TRUE)})
         IN  IF j # 0 THEN Match(i, j + 3) ELSE NoMatch

\* r'```[\s\S]*?```' at position i (three grave accents on either side)
FenceAt(text, i) ==
    IF ~LitAt(text, i, Fence, FALSE) THEN NoMatch
    ELSE LET j == FirstIn({e \in (i + 3)..Len(text) : LitAt(text, e, Fence, FALSE)})
         IN  IF j # 0 THEN Match(i, j + 2) ELSE NoMatch

\* r'<.*?>' at position i: "." matches anything but a newline
TagAt(text, i) ==
    IF At(text, i) # "<" THEN NoMatch
    ELSE LET j == FirstIn({e \in (i + 1)..Len(text) : text[e] = ">"})
         IN  IF j # 0 /\ \A e \in (i + 1)..(j - 1) : text[e] # "\n"
             THEN Match(i, j) ELSE NoMatch

\* r'(?i)(executando|buscando|consultando|verificando)[^\n\r]*[\n\r]?'
ProgressAt(text, i) ==
    IF Lower(At(text, i)) \notin ProgressWords THEN NoMatch
    ELSE LET b == FirstIn({e \in (i + 1)..Len(text) : text[e] \in LineBreaks})
         IN  IF b # 0 THEN Match(i, b) ELSE Match(i, Len(text))

PatternAt(re, text, i) ==
    CASE re = "delimited" -> DelimitedAt(text, i)
      [] re = "bare"      -> BareAt(text, i)
      [] re = "block"     -> BlockAt(text, i)
      [] re = "fence"     -> FenceAt(text, i)
      [] re = "tag"       -> TagAt(text, i)
      [] re = "progress"  -> ProgressAt(text, i)

\* re.search: the match at the leftmost position that has one
re_search(re, text) ==
    LET i == FirstIn({e \in 1..Len(text) : PatternAt(re, text, e).found})
    IN  IF i = 0 THEN NoMatch ELSE PatternAt(re, text, i)

\* re.sub(re, '', text): the text without its leftmost non-overlapping matches
RECURSIVE re_sub_from(_, _, _)
re_sub_from(re, text, i) ==
    IF i > Len(text) THEN <<>>
    ELSE LET m == PatternAt(re, text, i)
         IN  IF m.found
             THEN re_sub_from(re, text, m.to + 1)
             ELSE <<text[i]>> \o re_sub_from(re, text, i + 1)

re_sub(re, text) == re_sub_from(re, text, 1)

\* str.strip()
strip(text) ==
    LET keep == {e \in 1..Len(text) : text[e] \notin Whitespace}
    IN  IF keep = {} THEN <<>>
        ELSE SubSeq(text, FirstIn(keep), CHOOSE x \in keep : \A y \in keep : y <= x)

(***************************************************************************)
(* json.loads and json.dumps over token texts.  A parsed value is a tagged *)
(* record; the content of a string is the token text between its quotes,   *)
(* an object is a function from keys to values.                            *)
(***************************************************************************)
PV(t, s, l, o) == [t |-> t, s |-> s, l |-> l, o |-> o]
PNull     == PV("null", <<>>, <<>>, <<>>)
PTrue     == PV("true", <<>>, <<>>, <<>>)
PFalse    == PV("false", <<>>, <<>>, <<>>)
PStr(s)   == PV("str", s, <<>>, <<>>)
PNum(tok) == PV("num", <<tok>>, <<>>, <<>>)
PList(l)  == PV("list", <<>>, l, <<>>)
PObj(o)   == PV("dict", <<>>, <<>>, o)
PWord(w)  == PStr(<<w>>)

\* the number literals of the vocabulary
NumberTokens == {"0", "1", "2", "3", "5", "6", "7", "2020"}

ParseFail == [ok |-> FALSE, v |-> PNull, next |-> 0]
Parsed(v, next) == [ok |-> TRUE, v |-> v, next |-> next]

\* a JSON string starting at position i; a raw line break inside it is
\* an invalid control character
ParseString(text, i) ==
    LET z == FirstIn({e \in (i + 1)..Len(text) : text[e] = "\""})
    IN  IF /\ At(text, i) = "\""
           /\ z # 0
           /\ \A e \in (i + 1)..(z - 1) : text[e] \notin {"\n", "\r", "\t"}
        THEN Parsed(PStr(SubSeq(text, i + 1, z - 1)), z + 1)
        ELSE ParseFail

RECURSIVE ParseValue(_, _), ParseMembers(_, _, _), ParseElements(_, _, _)
\* the JSON value starting at position i
ParseValue(text, i) ==
    LET tok == At(text, i)
    IN  CASE tok = "\"" -> ParseString(text, i)
          [] tok = "{"  ->
               LET k == SkipWs(text, i + 1)
               IN  IF At(text, k) = "}" THEN Parsed(PObj(<<>>), k + 1)
                   ELSE ParseMembers(text, k, <<>>)
          [] tok = "["  ->
               LET k == SkipWs(text, i + 1)
               IN  IF At(text, k) = "]" THEN Parsed(PList(<<>>), k + 1)
                   ELSE ParseElements(text, k, <<>>)
          [] tok \in NumberTokens -> Parsed(PNum(tok), i + 1)
          [] tok = "true"  -> Parsed(PTrue, i + 1)
          [] tok = "false" -> Parsed(PFalse, i + 1)
          [] tok = "null"  -> Parsed(PNull, i + 1)
          [] OTHER -> ParseFail

\* the members of an object from the key at position k on; a repeated key
\* keeps its last value
ParseMembers(text, k, acc) ==
    LET key == ParseString(text, k)
    IN  IF ~key.ok THEN ParseFail
        ELSE LET c == SkipWs(text, key.next)
             IN  IF At(text, c) # ":" THEN ParseFail
                 ELSE LET val == ParseValue(text, SkipWs(text, c + 1))
                      IN  IF ~val.ok THEN ParseFail
                          ELSE LET d    == SkipWs(text, val.next)
                                   acc2 == (key.v.s :> val.v) @@ acc
                               IN  CASE At(text, d) = "," ->
                                          ParseMembers(text, SkipWs(text, d + 1), acc2)
                                     [] At(text, d) = "}" -> Parsed(PObj(acc2), d + 1)
                                     [] OTHER -> ParseFail

\* the elements of an array from the value at position k on
ParseElements(text, k, acc) ==
    LET val == ParseValue(text, k)
    IN  IF ~val.ok THEN ParseFail
        ELSE LET d    == SkipWs(text, val.next)
                 acc2 == Append(acc, val.v)
             IN  CASE At(text, d) = "," ->
                        ParseElements(text, SkipWs(text, d + 1), acc2)
                   [] At(text, d) = "]" -> Parsed(PList(acc2), d + 1)
                   [] OTHER -> ParseFail

\* json.loads(text): one value with nothing but whitespace around it
json_loads(text) ==
    LET r == ParseValue(text, SkipWs(text, 1))
    IN  IF r.ok /\ SkipWs(text, r.next) = Len(text) + 1
        THEN Ok(r.v) ELSE Raise("JSONDecodeError")

RECURSIVE json_dumps(_), DumpsMembers(_, _), DumpsElements(_, _)
\* json.dumps(v) with the default separators ', ' and ': '
json_dumps(v) ==
    CASE v.t = "str"  -> <<"\"">> \o v.s \o <<"\"">>
      [] v.t = "num"  -> v.s
      [] v.t = "list" -> <<"[">> \o DumpsElements(v.l, 1) \o <<"]">>
      [] v.t = "dict" -> <<"{">> \o DumpsMembers(v.o, DOMAIN v.o) \o <<"}">>
      [] OTHER        -> <<v.t>>

DumpsMembers(o, keys) ==
    IF keys = {} THEN <<>>
    ELSE LET k == CHOOSE x \in keys : TRUE
         IN  <<"\"">> \o k \o <<"\"", ":", " ">> \o json_dumps(o[k])
                 \o (IF keys = {k} THEN <<>> ELSE <<",", " ">>)
                 \o DumpsMembers(o, keys \ {k})

DumpsElements(l, i) ==
    IF i > Len(l) THEN <<>>
    ELSE json_dumps(l[i]) \o (IF i = Len(l) THEN <<>> ELSE <<",", " ">>)
            \o DumpsElements(l, i + 1)

(***************************************************************************)
(* src/client/main.py: what the agent reads out of the model's output      *)
(***************************************************************************)
\* parse_tool_call(llm_response): None, or the parsed JSON of the first
\* candidate block
parse_tool_call(response) ==
    LET match  == re_search("delimited", response)
        match2 == re_search("bare", response)
        loads(m) == json_loads(SubSeq(response, m.from, m.to))
    IN  IF match.found
        THEN (IF loads(match).exc THEN None ELSE Some(loads(match).v))
        ELSE IF match2.found
        THEN (IF loads(match2).exc THEN None ELSE Some(loads(match2).v))
        ELSE None

\* extract_final_response(llm_response)
extract_final_response(response) ==
    strip(re_sub("bare", re_sub("block", response)))

\* clean_llm_response(text)
clean_llm_response(text) ==
    strip(re_sub("progress", re_sub("tag", re_sub("fence", text))))

(***************************************************************************)
(* The text functions on their own: every sample is a model output; the    *)
(* actions apply parse_tool_call, then the stripping the loop applies      *)
(* before display, then the same stripping once more.                      *)
(***************************************************************************)
MaxFragments == 4

\* the server is not running
ServerOff ==
    /\ pydanticV2 = TRUE /\ catalog = <<>> /\ dbOk = TRUE /\ phase = "off"
    /\ body = NoBody /\ handledBy = "none" /\ outcome = NoOutcome
    /\ registry = MCP_METHODS /\ requests = <<>>

\* {"name": name, "input": input}
ToolCall(name, input) ==
    PObj((<<"name">> :> PWord(name)) @@ (<<"input">> :> PObj(input)))

\* the input mappings of the sampled tool calls: empty, flat, nested, with
\* a list, with free text
ToolInputs ==
    { <<>>,
      (<<"brand">> :> PWord("Ford")),
      (<<"brand">> :> PWord("Ford")) @@ (<<"year_min">> :> PNum("2020")),
      (<<"filters">> :> PObj((<<"brand">> :> PWord("Ford"))
                              @@ (<<"range">> :> PObj(<<"min">> :> PNum("1"))))),
      (<<"brands">> :> PList(<<PWord("Ford"), PWord("Fiat")>>)),
      (<<"search_text">> :> PStr(<<"Ford", " ", "2020">>)),
      (<<"search_text">> :> PStr(<<"}", "<", "/", "tool_call", ">">>)) }

ToolCalls ==
    {ToolCall(n, i) : n \in {"obter_range_anos", "buscar_veiculos"}, i \in ToolInputs}

\* the wire block the system prompt asks the model for, with the
\* whitespace ws between the markers and the JSON object
Wrap(json, ws) == OpenTag \o ws \o json \o ws \o CloseTag

Proses == {<<>>, <<"Ola", "!", " ">>, <<"Buscando", " ", "carros", "\n">>}

EncodedSamples ==
    {[call |-> Some(tc), text |-> prose \o Wrap(json_dumps(tc), ws)] :
        tc \in ToolCalls, prose \in Proses, ws \in {<<>>, <<"\n">>}}

\* the pieces free-form model outputs are put together from
Fragments ==
    { <<"Ola">>, <<" ">>, <<"\n">>, <<"buscando">>, <<"<">>, <<">">>, Fence,
      Wrap(<<"{", "name", ":", "x", "}">>, <<>>),
      <<"{", "\"", "name", "\"", ":", " ", "\"", "x", "\"", "}">> }

RECURSIVE Concat(_, _)
Concat(fs, i) == IF i > Len(fs) THEN <<>> ELSE fs[i] \o Concat(fs, i + 1)

FragmentSamples ==
    {[call |-> None, text |-> Concat(fs, 1)] :
        fs \in UNION {[1..k -> Fragments] : k \in 0..MaxFragments}}

Samples == EncodedSamples \cup FragmentSamples

InitText ==
    /\ ServerOff /\ retry = <<>> /\ AgentOff
    /\ sample \in Samples
    /\ tstep = "input"
    /\ parsedCall = None
    /\ extracted = <<>> /\ cleaned = <<>> /\ recleaned = <<>>

\* tool_call = parse_tool_call(llm_response)
ParseToolCall ==
    /\ tstep = "input"
    /\ parsedCall' = parse_tool_call(sample.text)
    /\ tstep' = "parsed"
    /\ UNCHANGED <<serverVars, retry, agentVars, sample, extracted, cleaned, recleaned>>

\* final_text = extract_final_response(llm_response);
\* final_text = clean_llm_response(final_text)
StripForDisplay ==
    /\ tstep = "parsed"
    /\ extracted' = extract_final_response(sample.text)
    /\ cleaned' = clean_llm_response(extract_final_response(sample.text))
    /\ tstep' = "stripped"
    /\ UNCHANGED <<serverVars, retry, agentVars, sample, parsedCall, recleaned>>

\* the same stripping applied to its own result
StripAgain ==
    /\ tstep = "stripped"
    /\ recleaned' = clean_llm_response(extract_final_response(cleaned))
    /\ tstep' = "restripped"
    /\ UNCHANGED <<serverVars, retry, agentVars, sample, parsedCall, extracted, cleaned>>

NextText == ParseToolCall \/ StripForDisplay \/ StripAgain

SpecText == InitText /\ [][NextText]_vars

\* C17: a tool call encoded as JSON inside a <tool_call> block, with or
\* without prose before it, is parsed back to the same name and input.
C17_EncodedToolCallRoundTrips ==
    (tstep \in {"parsed", "stripped", "restripped"} /\ sample.call.some)
        => parsedCall = sample.call

\* the model output has no <tool_call> block and no bare JSON object that
\* starts with a "name" key
NoCandidate(text) ==
    /\ ~re_search("block", text).found
    /\ ~re_search("delimited", text).found
    /\ ~re_search("bare", text).found

\* C19: for an output with no tool-call block and no bare JSON object,
\* parse_tool_call finds no call and the stripping returns the original
\* text with its leading and trailing whitespace removed.
C19_PlainTextIsOnlyTrimmed ==
    (tstep \in {"stripped", "restripped"} /\ NoCandidate(sample.text))
        => (~parsedCall.some /\ cleaned = strip(sample.text))

\* C20: stripping a stripped text changes nothing.
C20_StrippingIsIdempotent ==
    tstep = "restripped" => recleaned = cleaned

(***************************************************************************)
(* src/client/mcp_client.py: MCPClient.call_tool, against the server above *)
(***************************************************************************)
RECURSIVE Join(_)
\* the characters of a token text as one string
Join(text) == IF text = <<>> THEN "" ELSE Head(text) \o Join(Tail(text))

\* the value of a number literal of the vocabulary
NumberValue(tok) ==
    CASE tok = "0" -> 0 [] tok = "1" -> 1 [] tok = "2" -> 2 [] tok = "3" -> 3
      [] tok = "5" -> 5 [] tok = "6" -> 6 [] tok = "7" -> 7 [] tok = "2020" -> 2020

\* a parsed JSON value as the server reads it from the request body
ToJV(v) ==
    CASE v.t = "str"  -> JStr(Join(v.s))
      [] v.t = "num"  -> JInt(NumberValue(v.s[1]))
      [] v.t = "list" -> JList([i \in DOMAIN v.l |-> Join(v.l[i].s)])
      [] OTHER        -> JNull

\* the "arguments" member call_tool sends for input_args
ToArgs(v) ==
    CASE v.t = "dict" -> ArgsDict([k \in {Join(key) : key \in DOMAIN v.o} |->
                            ToJV(v.o[CHOOSE key \in DOMAIN v.o : Join(key) = k])])
      [] v.t = "list" -> ArgsList
      [] OTHER        -> ArgsNull

\* payload of call_tool(name, arguments, id=2)
CallToolPayload(name, arguments) ==
    Envelope(JStr("2.0"), JStr("tools/call"), ParamsCall(ToJV(name), ToArgs(arguments)), JInt(2))

\* the exception object an attempt raises; "attempt" tells the objects of
\* different attempts apart
Error(type, status, attempt) == [type |-> type, status |-> status, attempt |-> attempt]

\* await mcp_client.call_tool(name, arguments): the POST fails to connect,
\* or resp.raise_for_status() raises on a 4xx/5xx status, or resp.json()
\* is returned
call_tool(name, arguments, up, db, v2, attempt) ==
    LET resp == mcp_endpoint(CallToolPayload(name, arguments), db, v2)
    IN  CASE ~up -> [exc |-> TRUE, e |-> Error("ConnectError", 0, attempt), v |-> NoContent]
          [] up /\ resp.kind = "raised" ->
                [exc |-> TRUE, e |-> Error("HTTPStatusError", 500, attempt), v |-> NoContent]
          [] up /\ resp.kind # "raised" /\ resp.status >= 400 ->
                [exc |-> TRUE, e |-> Error("HTTPStatusError", resp.status, attempt), v |-> NoContent]
          [] OTHER -> [exc |-> FALSE, e |-> Error("", 0, 0), v |-> resp.content]

(***************************************************************************)
(* src/client/main.py: call_tool_with_retries.  The frame holds the        *)
(* arguments and locals of one call, its returned pair, and the log of     *)
(* what each attempt did.                                                  *)
(***************************************************************************)
MaxRetries == 3

\* max_retries=3, the default the loop relies on
DefaultMaxRetries == 3

NoFrame == [pc |-> "off", name |-> PNull, input_args |-> PNull, max_retries |-> 0,
            attempt |-> 0, last_error |-> None, result |-> None, error |-> None,
            log |-> <<>>]

\* entry of call_tool_with_retries: last_error = None
Frame(name, input_args, max_retries) ==
    [NoFrame EXCEPT !.pc = "running", !.name = name, !.input_args = input_args,
                    !.max_retries = max_retries]

\* return result, None
OnSuccess_keep_trying(fr, result) ==
    [fr EXCEPT !.attempt = @ + 1,
               !.log = Append(@, [ok |-> TRUE, result |-> result, e |-> Error("", 0, 0)])]
OnSuccess(fr, result) ==
    [fr EXCEPT !.attempt = @ + 1, !.pc = "returned",
               !.result = Some(result), !.error = None,
               !.log = Append(@, [ok |-> TRUE, result |-> result, e |-> Error("", 0, 0)])]

\* except Exception as e: last_error = e; sleep; next attempt
OnFailure_first_error(fr, e) ==
    [fr EXCEPT !.attempt = @ + 1,
               !.last_error = IF @.some THEN @ ELSE Some(e),
               !.log = Append(@, [ok |-> FALSE, result |-> NoContent, e |-> e])]
OnFailure(fr, e) ==
    [fr EXCEPT !.attempt = @ + 1, !.last_error = Some(e),
               !.log = Append(@, [ok |-> FALSE, result |-> NoContent, e |-> e])]

\* the range is used up: return None, last_error
OnExhausted(fr) == [fr EXCEPT !.pc = "returned", !.result = None, !.error = fr.last_error]

\* one pass of the for loop
CallToolAttempt ==
    /\ retry.pc = "running"
    /\ retry.attempt < retry.max_retries
    /\ \E up \in BOOLEAN, ok \in BOOLEAN :
          \* result = await mcp_client.call_tool(name, input_args)
          \E r \in {call_tool(retry.name, retry.input_args, up,
                              [rows |-> catalog, ok |-> ok], pydanticV2, retry.attempt + 1)} :
              retry' = IF r.exc THEN OnFailure(retry, r.e) ELSE OnSuccess(retry, r.v)
    /\ UNCHANGED <<serverVars, textVars, agentVars>>

\* the for loop ends without a return
CallToolExhausted ==
    /\ retry.pc = "running"
    /\ retry.attempt >= retry.max_retries
    /\ retry' = OnExhausted(retry)
    /\ UNCHANGED <<serverVars, textVars, agentVars>>

\* the server the agent talks to: any catalog, either pydantic version
ServerUp ==
    /\ pydanticV2 \in BOOLEAN /\ catalog \in Catalogs /\ dbOk = TRUE /\ phase = "off"
    /\ body = NoBody /\ handledBy = "none" /\ outcome = NoOutcome
    /\ registry = MCP_METHODS /\ requests = <<>>

\* the calls call_tool_with_retries is entered with
RetryNames  == {PWord("listar_marcas"), PWord("buscar_veiculos"), PWord("nao_existe")}
RetryInputs == {PObj(<<>>), PObj(<<"brand">> :> PWord("Ford"))}

InitRetry ==
    /\ ServerUp /\ TextOff /\ AgentOff
    /\ retry \in {Frame(n, i, N) : n \in RetryNames, i \in RetryInputs, N \in 1..MaxRetries}

NextRetry == CallToolAttempt \/ CallToolExhausted

SpecRetry == InitRetry /\ [][NextRetry]_vars

\* C14: attempts happen one after another and stop at the first success:
\* a first success at attempt k returns that result with no error after
\* exactly k attempts; N failures return an error after exactly N attempts.
C14_StopsAtFirstSuccess ==
    LET log == retry.log
        N   == retry.max_retries
    IN  /\ retry.attempt = Len(log) /\ Len(log) <= N
        /\ \A k \in 1..(Len(log) - 1) : ~log[k].ok
        /\ \A k \in 1..Len(log) : ~log[k].ok => log[k].e.attempt = k
        /\ (\E k \in 1..Len(log) : log[k].ok) => retry.pc = "returned"
        /\ retry.pc = "returned" =>
              IF log # <<>> /\ log[Len(log)].ok
              THEN retry.result = Some(log[Len(log)].result) /\ ~retry.error.some
              ELSE Len(log) = N /\ ~retry.result.some /\ retry.error.some

C14_Witness ==
    /\ retry.pc = "returned" /\ retry.max_retries = 3 /\ Len(retry.log) = 3
    /\ ~retry.log[1].ok /\ ~retry.log[2].ok /\ retry.log[3].ok
    /\ retry.result = Some(retry.log[3].result) /\ "result" \in retry.result.v.members

\* C15: after max_retries failures the pair is (None, the exception of the
\* final attempt); a returned result comes with no error; the pair never
\* has both components or neither.
C15_ExactlyOneOfResultAndError ==
    retry.pc = "returned" =>
        /\ retry.result.some # retry.error.some
        /\ ~retry.result.some =>
              /\ Len(retry.log) = retry.max_retries
              /\ \A k \in 1..Len(retry.log) : ~retry.log[k].ok
              /\ retry.error = Some(retry.log[retry.max_retries].e)
              /\ retry.error.v.attempt = retry.max_retries

C15_Witness ==
    /\ retry.pc = "returned" /\ retry.max_retries = 3 /\ ~retry.result.some
    /\ retry.log[1].e.type = "ConnectError"
    /\ retry.log[3].e.type = "HTTPStatusError"
    /\ retry.error = Some(retry.log[3].e)

(***************************************************************************)
(* src/client/main.py: main_async, the conversation loop                   *)
(***************************************************************************)
MaxTurns == 2

\* the content of a turn or of a printed line: a string, or the
\* json.dumps of a value the server sent
Text(t)  == [text |-> t]
Dumps(v) == [dumps |-> v]

Turn(role, content)     == [role |-> role, name |-> None, content |-> content]
ToolTurn(name, content) == [role |-> "tool", name |-> Some(name), content |-> content]

SYSTEM_PROMPT == <<"SYSTEM_PROMPT">>

\* error_message of the branch taken when the retries are used up
Apology ==
    <<"Desculpe", ",", " ", "ocorreu", " ", "um", " ", "erro", " ", "ao", " ",
      "tentar", " ", "consultar", " ", "a", " ", "informação", ".", " ",
      "Tente", " ", "novamente", ".">>

\* what llm.chat returns: a string, or None from a provider whose chat is
\* not implemented
Output(t) == [none |-> FALSE, text |-> t]
NoOutput  == [none |-> TRUE, text |-> <<>>]

\* what the user types, or end of input
Typed(t)   == [eof |-> FALSE, text |-> t]
EndOfInput == [eof |-> TRUE, text |-> <<>>]

UserInputs ==
    { Typed(<<"quero", " ", "um", " ", "Ford">>),
      Typed(<<"qual", " ", "o", " ", "id", " ", "do", " ", "2", "?">>),
      Typed(<<" ", "EXIT", "\n">>),
      EndOfInput }

\* user_input.strip().lower() in {'exit', 'quit'}
IsExit(text) ==
    LET t == strip(text)
    IN  Len(t) = 1 /\ Lower(t[1]) \in {"exit", "quit"}

\* r'(?:id|uuid)\s*(?:do|da)?\s*(\d+)' with re.IGNORECASE at position i
VehicleIdAt(text, i) ==
    LET k == SkipWs(text, i + 1)
        d == IF Lower(At(text, k)) \in {"do", "da"} THEN SkipWs(text, k + 1) ELSE k
    IN  IF Lower(At(text, i)) \in {"id", "uuid"} /\ At(text, d) \in NumberTokens
        THEN Match(d, d) ELSE NoMatch

\* extract_vehicle_id_from_question(user_input)
extract_vehicle_id_from_question(text) ==
    LET i == FirstIn({e \in 1..Len(text) : VehicleIdAt(text, e).found})
    IN  IF i = 0 THEN None ELSE Some(NumberValue(text[VehicleIdAt(text, i).from]))

\* the outputs the model is sampled from
CallBlock(name, input) == Wrap(json_dumps(ToolCall(name, input)), <<>>)

LlmOutputs ==
    { Output(<<"Temos", " ", "Ford", " ", "e", " ", "Toyota", ".">>),
      Output(<<"[", "LLM", " ", "Error", ":", " ", "timeout", "]">>),
      Output(<<"Ola", "!", " ">> \o CallBlock("obter_range_anos", <<>>)),
      Output(CallBlock("listar_marcas", <<>>)),
      Output(CallBlock("buscar_veiculos", (<<"brand">> :> PWord("Ford")))),
      Output(CallBlock("nao_existe", <<>>)),
      Output(<<"Ola", " ">> \o Wrap(<<"{", "name", ":", "x", "}">>, <<>>)),
      Output(<<"{", "\"", "name", "\"", ":", " ", "\"", "x", "\"", ",", " ", "oops", "}",
               " ", "Ola">>),
      Output(Wrap(json_dumps(PObj(<<"tool">> :> PWord("x"))), <<>>)),
      NoOutput }

SummaryOutputs ==
    { Output(<<"Temos", " ", "Ford", " ", "e", " ", "Toyota", ".">>),
      Output(<<"Buscando", " ", "carros">>),
      Output(<<"Ola", "!", " ">> \o CallBlock("obter_range_anos", <<>>)),
      NoOutput }

\* the ghost record of the turn in progress
NewTurn(count, base) ==
    [count |-> count, base |-> base, model_calls |-> 0, attempts |-> 0, path |-> "started",
     sent |-> <<>>, summary |-> NoOutput]

\* the agent talks to a server whose catalog is full
InitAgent ==
    /\ ServerUp /\ Len(catalog) = MaxVehicles
    /\ TextOff
    /\ retry = NoFrame
    /\ apc = "awaiting_user_input"
    /\ conversation = <<Turn("system", Text(SYSTEM_PROMPT))>>
    /\ last_vehicle_list = <<>>
    /\ user_input = EndOfInput
    /\ llm_response = NoOutput
    /\ tool_call = None
    /\ shown = <<>>
    /\ turn = NewTurn(0, 1)

\* if final_text: stream_print(final_text)
StreamPrintIf(lines, final_text) ==
    IF final_text # <<>> THEN Append(lines, Text(final_text)) ELSE lines

\* except (KeyboardInterrupt, EOFError): break
OnEndOfInput_continue == "awaiting_user_input"
OnEndOfInput == "exited"

\* except Exception as e: print_error(...); continue
OnException_break == "exited"
OnException == "awaiting_user_input"

\* tool_result, tool_error = await call_tool_with_retries(...): the loop
\* stands still until the call has returned
AwaitTool_detached == "awaiting_user_input"
AwaitTool == "calling_tool"

\* the transcript after messages = conversation.copy(); messages.append(msg)
AfterCopy_alias(conv, msg) == Append(conv, msg)
AfterCopy(conv, msg) == conv

\* tools_prompt_section, and the instruction added before the summary of a
\* vehicle search
\* an entry of result.tools as the server sends it
ListedTool(t) == [name |-> t.name, inputSchema |-> [properties |-> t.properties]]

\* mcp_client.tools after list_tools()
list_tools == [i \in DOMAIN tools |-> ListedTool(tools[i])]

\* params = tool.get('parameters', {}).get('properties', {})
ToolParameters(tool) ==
    IF "parameters" \in DOMAIN tool THEN tool.parameters.properties ELSE NoProperties

\* tool_defs: per tool its name and its parameter lines, or "Nenhum"
tool_defs ==
    [i \in DOMAIN list_tools |->
        [name   |-> list_tools[i].name,
         params |-> ToolParameters(list_tools[i]),
         none   |-> DOMAIN ToolParameters(list_tools[i]) = {}]]

ToolsPrompt   == Turn("system", [tool_defs |-> tool_defs])
SummaryPrompt == Turn("system", Text(<<"Resuma", " ", "para", " ", "o", " ", "usuário">>))

\* the answer to "id do N" read from last_vehicle_list
LocalAnswer_zero_based(idx) ==
    IF idx \in 0..(Len(last_vehicle_list) - 1)
    THEN [vehicle_id |-> last_vehicle_list[idx + 1].id, idx |-> idx]
    ELSE Text(<<"Não foi possível encontrar o veículo com este número na lista anterior.">>)
LocalAnswer(idx) ==
    IF idx \in 1..Len(last_vehicle_list)
    THEN [vehicle_id |-> last_vehicle_list[idx].id, idx |-> idx]
    ELSE Text(<<"Não foi possível encontrar o veículo com este número na lista anterior.">>)

\* one pass of the loop up to the first model call: read a line; leave on
\* exit, quit or end of input; answer an "id do N" question from the last
\* vehicle list; otherwise record the user turn
\* the transcript after a question answered from last_vehicle_list: the
\* continue of the local branch comes before conversation.append
AfterLocalAnswer_recorded(conv, text) == Append(conv, Turn("user", Text(text)))
AfterLocalAnswer(conv, text) == conv

PromptAsyncFrom(inputs) ==
    /\ apc = "awaiting_user_input"
    /\ \E in \in inputs :
          LET idx == extract_vehicle_id_from_question(in.text)
              t   == NewTurn(turn.count + 1, Len(conversation))
          IN  /\ user_input' = in
              /\ llm_response' = NoOutput
              /\ tool_call' = None
              /\ CASE in.eof ->
                        /\ apc' = OnEndOfInput
                        /\ turn' = [t EXCEPT !.path = "exit"]
                        /\ shown' = <<>>
                        /\ UNCHANGED conversation
                   [] ~in.eof /\ IsExit(in.text) ->
                        /\ apc' = "exited"
                        /\ turn' = [t EXCEPT !.path = "exit"]
                        /\ shown' = <<>>
                        /\ UNCHANGED conversation
                   [] ~in.eof /\ ~IsExit(in.text) /\ idx.some /\ last_vehicle_list # <<>> ->
                        /\ turn.count < MaxTurns
                        /\ apc' = "awaiting_user_input"
                        /\ turn' = [t EXCEPT !.path = "local"]
                        /\ shown' = <<LocalAnswer(idx.v)>>
                        /\ conversation' = AfterLocalAnswer(conversation, in.text)
                   [] OTHER ->
                        /\ turn.count < MaxTurns
                        /\ apc' = "model_call"
                        /\ turn' = t
                        /\ shown' = <<>>
                        /\ conversation' = Append(conversation, Turn("user", Text(in.text)))
    /\ UNCHANGED <<serverVars, textVars, retry, last_vehicle_list>>

PromptAsync == PromptAsyncFrom(UserInputs)

\* conversation.append({"role": "assistant", "content": str(llm_response or "")})
PlainAnswer(conv, response) == Append(conv, Turn("assistant", Text(response)))

\* llm.chat, parse_tool_call, and either the start of the tool invocation
\* or the plain answer; an exception ends the turn in the except clause
FirstModelCall ==
    /\ apc = "model_call"
    /\ \E out \in LlmOutputs :
       \* tool_call = parse_tool_call(llm_response)
       \E tc \in {parse_tool_call(out.text)} :
          LET truthy == tc.some /\ DOMAIN tc.v.o # {}
              calls  == [turn EXCEPT !.model_calls = @ + 1,
                                     !.sent = Append(conversation, ToolsPrompt)]
              conv   == AfterCopy(conversation, ToolsPrompt)
          IN  /\ llm_response' = out
              /\ CASE out.none ->
                        \* re.search(pattern, None) raises TypeError
                        /\ apc' = OnException
                        /\ turn' = [calls EXCEPT !.path = "raised"]
                        /\ conversation' = conv
                        /\ UNCHANGED <<tool_call, retry, shown>>
                   [] ~out.none /\ truthy /\ <<"name">> \notin DOMAIN tc.v.o ->
                        \* tool_call['name'] raises KeyError
                        /\ apc' = OnException
                        /\ tool_call' = tc
                        /\ turn' = [calls EXCEPT !.path = "raised"]
                        /\ conversation' = conv
                        /\ UNCHANGED <<retry, shown>>
                   [] ~out.none /\ truthy /\ <<"name">> \in DOMAIN tc.v.o ->
                        /\ apc' = AwaitTool
                        /\ tool_call' = tc
                        /\ retry' = Frame(tc.v.o[<<"name">>],
                                          IF <<"input">> \in DOMAIN tc.v.o
                                          THEN tc.v.o[<<"input">>] ELSE PObj(<<>>),
                                          DefaultMaxRetries)
                        /\ turn' = calls
                        /\ conversation' = conv
                        /\ UNCHANGED shown
                   [] OTHER ->
                        /\ apc' = "awaiting_user_input"
                        /\ tool_call' = tc
                        /\ shown' = StreamPrintIf(shown,
                                        clean_llm_response(extract_final_response(out.text)))
                        /\ conversation' = PlainAnswer(conv, out.text)
                        /\ turn' = [calls EXCEPT !.path = "plain"]
                        /\ UNCHANGED retry
    /\ UNCHANGED <<serverVars, textVars, last_vehicle_list, user_input>>

\* print(f"[Erro] Falha ao executar tool ...: {e}") of every failed attempt
FailureLines(log) ==
    LET n == IF log # <<>> /\ log[Len(log)].ok THEN Len(log) - 1 ELSE Len(log)
    IN  [k \in 1..n |-> [print |-> "[Erro] Falha ao executar tool", e |-> log[k].e]]

\* the tools whose result the loop hands to a show_*_prompt function
PromptedTools == {PWord("listar_marcas"), PWord("listar_modelos"),
                  PWord("listar_cores_disponiveis")}

\* format_tool_result_for_llm(tool_name, tool_result)
format_tool_result_for_llm(tool_name, tool_result) ==
    IF tool_name = PWord("buscar_veiculos") THEN Dumps(tool_result)
    ELSE IF "result" \in tool_result.members THEN Dumps(tool_result.result)
    ELSE Dumps(tool_result)

\* the transcript after a tool call that used up its retries
OnToolError_protocol(conv, e) == Append(conv, Turn("assistant", Text(<<e.type>>)))
OnToolError(conv, e) == Append(conv, Turn("assistant", Text(Apology)))

\* the transcript after a tool call that returned a result
OnToolResult(conv, response, name, tool_result) ==
    conv \o <<Turn("assistant", Text(response)),
              ToolTurn(Join(name.s), format_tool_result_for_llm(name, tool_result))>>

\* what the loop does with the pair call_tool_with_retries returned
ToolReturned ==
    /\ apc = "calling_tool"
    /\ retry.pc = "returned"
    /\ LET lines == shown \o FailureLines(retry.log)
           name  == tool_call.v.o[<<"name">>]
           t     == [turn EXCEPT !.attempts = Len(retry.log)]
       IN  CASE ~retry.result.some ->
                  /\ shown' = lines \o <<[print |-> "Motivo", e |-> retry.error.v],
                                         Text(Apology)>>
                  /\ conversation' = OnToolError(conversation, retry.error.v)
                  /\ apc' = "awaiting_user_input"
                  /\ turn' = [t EXCEPT !.path = "exhausted"]
             [] retry.result.some /\ name \in PromptedTools ->
                  \* show_*_prompt calls mcp_client.get_prompt, which MCPClient
                  \* does not have: AttributeError, caught by the except clause
                  /\ shown' = lines
                  /\ apc' = OnException
                  /\ turn' = [t EXCEPT !.path = "raised"]
                  /\ UNCHANGED conversation
             [] OTHER ->
                  /\ shown' = lines
                  /\ conversation' = OnToolResult(conversation, llm_response.text, name,
                                                  retry.result.v)
                  /\ apc' = "summary_call"
                  /\ turn' = [t EXCEPT !.path = "tool"]
    /\ retry' = NoFrame
    /\ UNCHANGED <<serverVars, textVars, last_vehicle_list, user_input, llm_response, tool_call>>

\* where the loop goes once the second model output is recorded: it is
\* never handed to parse_tool_call
OnSummary_reparse(out) ==
    IF parse_tool_call(out.text).some THEN "model_call" ELSE "awaiting_user_input"
OnSummary(out) == "awaiting_user_input"

\* the second llm.chat and the final answer of a turn with a tool result
SummaryCall ==
    /\ apc = "summary_call"
    /\ \E out \in SummaryOutputs :
          LET search == tool_call.v.o[<<"name">>] = PWord("buscar_veiculos")
              calls  == [turn EXCEPT !.model_calls = @ + 1, !.summary = out,
                                     !.sent = IF search
                                              THEN Append(conversation, SummaryPrompt)
                                              ELSE conversation]
              conv   == IF search THEN AfterCopy(conversation, SummaryPrompt)
                        ELSE conversation
          IN  IF out.none
              THEN \* re.sub(pattern, '', None) raises TypeError
                   /\ apc' = OnException
                   /\ turn' = [calls EXCEPT !.path = "raised"]
                   /\ conversation' = conv
                   /\ UNCHANGED shown
              ELSE /\ apc' = OnSummary(out)
                   /\ shown' = StreamPrintIf(shown,
                                   clean_llm_response(extract_final_response(out.text)))
                   /\ conversation' = PlainAnswer(conv, out.text)
                   /\ turn' = [calls EXCEPT !.path = "answered"]
    /\ UNCHANGED <<serverVars, textVars, retry, last_vehicle_list, user_input,
                   llm_response, tool_call>>

NextAgent ==
    \/ PromptAsync \/ FirstModelCall \/ CallToolAttempt \/ CallToolExhausted
    \/ ToolReturned \/ SummaryCall

SpecAgent == InitAgent /\ [][NextAgent]_vars

\* the turn in progress detected a tool call whose retries were used up,
\* and the loop has dealt with it
ExhaustedTurnDone == apc # "calling_tool" /\ turn.path = "exhausted"

\* C16: when the tool call of a turn uses up its retries, the user is shown
\* the fixed apology, exactly one assistant turn holding it follows the
\* user turn, no tool turn is added and no second model call is made, and
\* the loop waits for input again.
C16_ExhaustedRetriesAreAnApology ==
    ExhaustedTurnDone =>
        /\ apc = "awaiting_user_input"
        /\ shown # <<>> /\ shown[Len(shown)] = Text(Apology)
        /\ Len(conversation) = turn.base + 2
        /\ conversation[turn.base + 1] = Turn("user", Text(user_input.text))
        /\ conversation[turn.base + 2] = Turn("assistant", Text(Apology))
        /\ turn.model_calls = 1
        /\ turn.attempts = DefaultMaxRetries

C16_Witness ==
    /\ ExhaustedTurnDone /\ apc = "awaiting_user_input"
    /\ tool_call.v.o[<<"name">>] = PWord("nao_existe")
    /\ conversation[Len(conversation)] = Turn("assistant", Text(Apology))
    /\ turn.attempts = 3 /\ turn.count = 2

\* a candidate block is found in the text but its content is not JSON
MalformedCandidate(text) ==
    LET m  == re_search("delimited", text)
        m2 == re_search("bare", text)
    IN  IF m.found THEN json_loads(SubSeq(text, m.from, m.to)).exc
        ELSE m2.found /\ json_loads(SubSeq(text, m2.from, m2.to)).exc

\* C18: a model output whose candidate block is not valid JSON is treated
\* as a plain answer: no call is parsed, no tool is invoked, and the text
\* that remains without the block is what is shown and what is recorded.
C18_MalformedBlockIsPlainAnswer ==
    (/\ apc = "awaiting_user_input" /\ turn.model_calls = 1 /\ ~llm_response.none
     /\ MalformedCandidate(llm_response.text))
        => LET remaining == extract_final_response(llm_response.text)
           IN  /\ ~tool_call.some
               /\ turn.path = "plain" /\ turn.attempts = 0
               /\ shown = <<Text(remaining)>>
               /\ conversation[Len(conversation)] = Turn("assistant", Text(remaining))

\* the prose of a sample: what stands before its tool-call block
ProseOf(text) ==
    LET i == FirstIn({e \in 1..Len(text) : LitAt(text, e, OpenTag, FALSE)})
    IN  IF i = 0 THEN text ELSE SubSeq(text, 1, i - 1)

\* C21: for ordinary prose followed by one well-formed tool-call block, the
\* stripping before display returns exactly the trimmed prose.
C21_OnlyBlocksAreStripped ==
    (tstep \in {"stripped", "restripped"} /\ sample.call.some)
        => cleaned = strip(ProseOf(sample.text))

\* ---------------------------------------------------------------------
\* Positional questions against a stored vehicle list
\* ---------------------------------------------------------------------

MaxListed == 5

\* what print_vehicle_list_aligned stores: the vehicles of a search result
StoredLists == { [i \in 1..n |-> VehicleResult_from_orm(Veiculo(i))] : n \in 0..MaxListed }

IdQuestion(n) == Typed(<<"qual", " ", "o", " ", "id", " ", "do", " ", n, "?">>)

OrdinalQuestions ==
    { IdQuestion(n) : n \in NumberTokens }
    \cup { Typed(<<"UUID", " ", "da", " ", "3">>),
           Typed(<<"id", "3">>),
           Typed(<<"quero", " ", "um", " ", "Ford">>) }

InitOrdinal ==
    /\ ServerOff
    /\ TextOff
    /\ retry = NoFrame
    /\ apc = "awaiting_user_input"
    /\ conversation = <<Turn("system", Text(SYSTEM_PROMPT))>>
    /\ last_vehicle_list \in StoredLists
    /\ user_input = EndOfInput
    /\ llm_response = NoOutput
    /\ tool_call = None
    /\ shown = <<>>
    /\ turn = NewTurn(0, 1)

AskOrdinal == PromptAsyncFrom(OrdinalQuestions)

NextOrdinal == AskOrdinal

SpecOrdinal == InitOrdinal /\ [][NextOrdinal]_vars

\* the loop has just read a question that names a position
PositionAsked ==
    /\ turn.count > 0 /\ turn.model_calls = 0 /\ ~user_input.eof
    /\ extract_vehicle_id_from_question(user_input.text).some

NotFoundLine ==
    Text(<<"Não foi possível encontrar o veículo com este número na lista anterior.">>)

\* C22: a question naming position n, asked against a stored list of length
\* L, never raises; for 1 <= n <= L the id of the item at index n-1 is
\* shown, and for n = 0, n > L or an empty list no item is resolved (the
\* not-found line for a non-empty list, nothing for an empty one).
C22_OrdinalResolution ==
    PositionAsked =>
        LET n == extract_vehicle_id_from_question(user_input.text).v
            L == Len(last_vehicle_list)
        IN  /\ turn.path # "raised"
            /\ (n \in 1..L) =>
                   /\ turn.path = "local" /\ apc = "awaiting_user_input"
                   /\ shown = <<[vehicle_id |-> last_vehicle_list[n].id, idx |-> n]>>
            /\ (n \notin 1..L /\ L > 0) =>
                   /\ turn.path = "local" /\ apc = "awaiting_user_input"
                   /\ shown = <<NotFoundLine>>
            /\ (L = 0) => shown = <<>> /\ apc = "model_call"

C22_Witness ==
    /\ PositionAsked /\ Len(last_vehicle_list) = 5
    /\ extract_vehicle_id_from_question(user_input.text).v = 3
    /\ shown = <<[vehicle_id |-> "uuid-3", idx |-> 3]>>

C22_WitnessAbsent ==
    /\ PositionAsked /\ Len(last_vehicle_list) = 5
    /\ extract_vehicle_id_from_question(user_input.text).v \in {0, 6}
    /\ shown = <<NotFoundLine>>

\* ---------------------------------------------------------------------
\* Turns of the agent loop
\* ---------------------------------------------------------------------

\* the tool the turn in progress called
CalledTool == tool_call.v.o[<<"name">>]

\* the turn in progress recorded the result of a vehicle search
SearchResultRecorded ==
    /\ turn.path \in {"tool", "answered"}
    /\ CalledTool = PWord("buscar_veiculos")
    /\ "result" \in conversation[turn.base + 3].content.dumps.members

\* C23: after a turn in which buscar_veiculos returned a vehicle list,
\* last_vehicle_list equals that list (and is empty when the list is empty).
C23_StoredListIsLastResult ==
    SearchResultRecorded =>
        last_vehicle_list = conversation[turn.base + 3].content.dumps.result

\* the turn in progress detected a tool call, its invocation returned a
\* result, and the loop is waiting for input again
ResultTurnDone ==
    /\ apc = "awaiting_user_input"
    /\ turn.attempts > 0 /\ turn.path # "exhausted"

\* C24: a turn whose tool call returned a result makes the second model call
\* and extends the transcript by exactly the user turn, an assistant turn
\* with the first output, a tool turn named after the called tool, and an
\* assistant turn with the second output.
C24_ResultTurnRecordsFourTurns ==
    ResultTurnDone =>
        /\ turn.model_calls = 2
        /\ ~turn.summary.none
        /\ Len(conversation) = turn.base + 4
        /\ conversation[turn.base + 1] = Turn("user", Text(user_input.text))
        /\ conversation[turn.base + 2] = Turn("assistant", Text(llm_response.text))
        /\ conversation[turn.base + 3].role = "tool"
        /\ conversation[turn.base + 3].name = Some(Join(CalledTool.s))
        /\ conversation[turn.base + 4] = Turn("assistant", Text(turn.summary.text))

\* the turn in progress made its first model call, no tool call was detected
\* in the output, and the loop is waiting for input again
NoCallTurnDone ==
    /\ apc = "awaiting_user_input"
    /\ turn.model_calls >= 1
    /\ ~(tool_call.some /\ DOMAIN tool_call.v.o # {})

\* C25: a turn in which no tool call is detected invokes no tool, makes no
\* second model call, and extends the transcript by exactly the user turn
\* and one assistant turn holding the model output.
C25_NoCallTurnRecordsTwoTurns ==
    NoCallTurnDone =>
        /\ turn.model_calls = 1
        /\ turn.attempts = 0
        /\ Len(conversation) = turn.base + 2
        /\ conversation[turn.base + 1] = Turn("user", Text(user_input.text))
        /\ conversation[turn.base + 2] = Turn("assistant", Text(llm_response.text))

\* C26: every step leaves the recorded turns as they are and only appends
\* at the end, and what it appends is never one of the system messages that
\* are added to the copy sent to the model.
C26_TranscriptIsAppendOnly ==
    [][/\ Len(conversation') >= Len(conversation)
       /\ SubSeq(conversation', 1, Len(conversation)) = conversation
       /\ \A k \in (Len(conversation) + 1)..Len(conversation') :
              conversation'[k].role # "system"]_vars

C26_Witness ==
    /\ turn.path = "answered" /\ turn.count = 2
    /\ turn.sent[Len(turn.sent)].role = "system"
    /\ turn.sent[Len(turn.sent)].content = SummaryPrompt.content
    /\ Len(conversation) = turn.base + 4
    /\ \A k \in 2..Len(conversation) : conversation[k].role # "system"

\* C27: end of input or an interrupt at the prompt ends the loop and leaves
\* the transcript and the stored list exactly as they were.
C27_EndOfInputEndsCleanly ==
    [][(apc = "awaiting_user_input" /\ turn'.count = turn.count + 1 /\ user_input'.eof)
          => /\ apc' = "exited"
             /\ conversation' = conversation
             /\ last_vehicle_list' = last_vehicle_list]_vars

C27_Witness ==
    /\ apc = "exited" /\ user_input.eof
    /\ turn.count >= 2 /\ Len(conversation) >= 3

\* C28: a turn that failed (an exception in the loop body, or a tool call
\* that used up its retries) leaves the loop waiting for input, and the
\* loop has ended only after exit, quit or end of input at the prompt.
C28_FailuresDoNotEndTheLoop ==
    /\ turn.path \in {"raised", "exhausted"} => apc = "awaiting_user_input"
    /\ apc = "exited" =>
           /\ turn.path = "exit"
           /\ user_input.eof \/ IsExit(user_input.text)

C28_Witness ==
    /\ apc = "awaiting_user_input" /\ turn.path = "raised"
    /\ turn.attempts = 1 /\ CalledTool = PWord("listar_marcas")

\* requests the session has outstanding
Outstanding ==
    (IF apc \in {"model_call", "summary_call"} THEN 1 ELSE 0)
    + (IF retry.pc = "running" THEN 1 ELSE 0)

\* C29: at most one model call or tool invocation is outstanding; none is
\* while the loop reads input; and every attempt of an invocation has
\* ended before the next one starts.
C29_OneRequestInFlight ==
    /\ Outstanding <= 1
    /\ apc = "awaiting_user_input" => Outstanding = 0 /\ retry.pc = "off"
    /\ retry.pc # "off" => apc = "calling_tool" /\ retry.attempt = Len(retry.log)

C29_Witness ==
    /\ apc = "calling_tool" /\ retry.pc = "running"
    /\ retry.attempt = 2 /\ Outstanding = 1

\* ---------------------------------------------------------------------
\* Requests handled at the same time
\* ---------------------------------------------------------------------

MaxRequests == 2

\* the requests sent while others are being handled
ConcurrentBodies ==
    { NotJsonBody,
      Envelope(JStr("2.0"), JStr("tools/list"), ParamsAbsent, JInt(7)),
      Envelope(JStr("2.0"), JStr("prompts/list"), ParamsAbsent, JInt(7)),
      Envelope(JStr("2.0"), JStr("tools/call"),
               ParamsCall(JStr("buscar_veiculos"), ArgsDict("brand" :> JStr("Ford"))), JInt(7)),
      Envelope(JStr("2.0"), JStr("tools/call"),
               ParamsCall(JStr("apagar_veiculos"), ArgsDict(EmptyDict)), JInt(7)),
      Envelope(JStr("2.0"), JStr("prompts/get"),
               ParamsCall(JStr("car_search_intro"), ArgsDict(EmptyDict)), JInt(7)),
      Envelope(JStr("2.0"), JStr("listar_marcas"), ParamsAbsent, JInt(7)) }

\* a request slot of the event loop: nothing arrived
NoRequest ==
    [phase |-> "idle", body |-> NoBody, dbOk |-> TRUE, handledBy |-> "none",
     outcome |-> NoOutcome]

InitConcurrent ==
    /\ pydanticV2 \in BOOLEAN /\ catalog \in Catalogs /\ Len(catalog) = MaxVehicles
    /\ dbOk = TRUE /\ phase = "off"
    /\ body = NoBody /\ handledBy = "none" /\ outcome = NoOutcome
    /\ registry = MCP_METHODS
    /\ requests = [i \in 1..MaxRequests |-> NoRequest]
    /\ TextOff /\ retry = <<>> /\ AgentOff

ConcurrentFrame == <<pydanticV2, catalog, dbOk, phase, body, handledBy, outcome, clientVars>>

\* a POST /mcp arrives while other requests are in progress
ConcurrentReceive(i) ==
    /\ requests[i].phase = "idle"
    /\ \E b \in ConcurrentBodies, ok \in BOOLEAN :
          requests' = [requests EXCEPT ![i] = [NoRequest EXCEPT !.phase = "handling",
                                                                !.body = b, !.dbOk = ok]]
    /\ UNCHANGED <<registry, ConcurrentFrame>>

\* the route function of request i runs
ConcurrentMcpEndpoint(i) ==
    /\ requests[i].phase = "handling"
    /\ requests' = [requests EXCEPT ![i] =
           [@ EXCEPT !.phase = "done", !.handledBy = "mcp_endpoint",
                     !.outcome = mcp_endpoint(requests[i].body,
                                              [rows |-> catalog, ok |-> requests[i].dbOk],
                                              pydanticV2)]]
    /\ registry' = RegistryAfter(registry, requests[i].body)
    /\ UNCHANGED ConcurrentFrame

\* request i is rejected before the route function runs
ConcurrentValidationExceptionHandler(i) ==
    /\ requests[i].phase = "handling"
    /\ requests' = [requests EXCEPT ![i] =
           [@ EXCEPT !.phase = "done", !.handledBy = "validation_exception_handler",
                     !.outcome = validation_exception_handler(requests[i].body)]]
    /\ UNCHANGED <<registry, ConcurrentFrame>>

\* the response of request i is sent
ConcurrentRespond(i) ==
    /\ requests[i].phase = "done"
    /\ requests' = [requests EXCEPT ![i] = NoRequest]
    /\ UNCHANGED <<registry, ConcurrentFrame>>

NextConcurrent ==
    \/ \E i \in 1..MaxRequests : ConcurrentReceive(i)
    \/ \E i \in 1..MaxRequests : ConcurrentMcpEndpoint(i)
    \/ \E i \in 1..MaxRequests : ConcurrentValidationExceptionHandler(i)
    \/ \E i \in 1..MaxRequests : ConcurrentRespond(i)

SpecConcurrent == InitConcurrent /\ [][NextConcurrent]_vars

\* request i has been answered by the route function
Answered(i) == requests[i].phase = "done" /\ requests[i].handledBy = "mcp_endpoint"

\* C30: whatever requests are handled and however they interleave, the
\* registry is the one of startup, tools/list and prompts/list answer with
\* the startup listings, and two requests with the same body and the same
\* database condition get the same response whatever else was handled.
C30_RegistryIsReadOnly ==
    /\ registry = MCP_METHODS
    /\ \A i \in DOMAIN requests :
           /\ (Answered(i) /\ requests[i].body.method = JStr("tools/list"))
                  => requests[i].outcome.content.result.tools = tools
           /\ (Answered(i) /\ requests[i].body.method = JStr("prompts/list"))
                  => requests[i].outcome.content.result.prompts = prompts
    /\ \A i, j \in DOMAIN requests :
           (/\ Answered(i) /\ Answered(j)
            /\ requests[i].body = requests[j].body
            /\ requests[i].dbOk = requests[j].dbOk)
               => requests[i].outcome = requests[j].outcome

C30_Witness ==
    /\ Answered(1) /\ Answered(2)
    /\ requests[1].body.method = JStr("tools/call")
    /\ requests[1].outcome.status = 200
    /\ requests[2].body.method = JStr("tools/list")
    /\ requests[2].outcome.content.result.tools = tools

\* ---------------------------------------------------------------------
\* Tool names used as the method, and the prompts the endpoint lists
\* ---------------------------------------------------------------------

\* the request in body names a registered tool as its method, and its params
\* are the tool's arguments or are left out
DirectToolRequest ==
    /\ ValidEnvelope /\ body.method.s \in RegisteredTools
    /\ body.params.t \in {"absent", "null", "dict"}
    /\ body.params.name.t = "absent" /\ body.params.arguments.t = "absent"

\* the tools/call request for the same tool with the same arguments
AsToolsCall ==
    Envelope(body.jsonrpc, JStr("tools/call"),
             ParamsCall(body.method, ArgsDict(ParamsAsDict(body.params))), body.id)

\* C31: a registered tool name used as the method runs that tool's handler
\* and is answered like tools/call with that name and the same arguments,
\* never with -32601.
C31_DirectMethodIsToolsCall ==
    (Handled /\ DirectToolRequest) =>
        /\ ~ErrorCodeIs(-32601)
        /\ outcome = mcp_endpoint(AsToolsCall, [rows |-> catalog, ok |-> dbOk], pydanticV2)

\* the request in body gets a listed prompt with its required arguments
GetsListedPrompt ==
    /\ MethodIs("prompts/get")
    /\ body.params.t = "dict" /\ body.params.name.t = "str"
    /\ body.params.name.s \in ListedPrompts
    /\ body.params.arguments.t = "dict"
    /\ RequiredArguments(body.params.name.s) \subseteq DOMAIN body.params.arguments.d

\* C32: prompts/get of a name that prompts/list returns, with its required
\* arguments supplied, returns a result with description and messages and
\* never the unknown-prompt error -32602.
C32_ListedPromptsAreGettable ==
    (Handled /\ GetsListedPrompt) =>
        /\ ~ErrorCodeIs(-32602)
        /\ HasResult
        /\ outcome.content.result.description # ""
        /\ outcome.content.result.messages # <<>>

\* ---------------------------------------------------------------------
\* The shape of the transcript and of the calls the loop makes
\* ---------------------------------------------------------------------

\* C33: whenever the loop waits for input, every user turn of the
\* transcript is immediately followed by an assistant turn.
C33_UserTurnsAreAnswered ==
    apc = "awaiting_user_input" =>
        \A k \in DOMAIN conversation :
            conversation[k].role = "user" =>
                k < Len(conversation) /\ conversation[k + 1].role = "assistant"

\* {name: string, input: mapping}, input being optional
IsToolCallShape(v) ==
    /\ v.t = "dict"
    /\ <<"name">> \in DOMAIN v.o /\ v.o[<<"name">>].t = "str"
    /\ <<"input">> \in DOMAIN v.o => v.o[<<"input">>].t = "dict"

\* C34: whatever parse_tool_call returns other than None is an object with a
\* string name and, if present, a mapping input; and the loop never starts
\* a tool invocation without a tool name.
C34_ParsedCallHasAName ==
    /\ (turn.model_calls >= 1 /\ tool_call.some) => IsToolCallShape(tool_call.v)
    /\ retry.pc # "off" => retry.name.t = "str"

\* the response an attempt returned carries an error member
CarriesError(entry) == "error" \in entry.result.members

\* C35: an attempt of a tool call that the server answered with a JSON-RPC
\* error is never logged as a success, and a tool turn is appended to the
\* transcript only when the last attempt returned a response without an
\* error member.
C35_ErrorResponsesAreFailures ==
    [][/\ retry.pc # "off" =>
              \A k \in DOMAIN retry.log : retry.log[k].ok => ~CarriesError(retry.log[k])
       /\ (/\ Len(conversation') > Len(conversation)
           /\ conversation'[Len(conversation')].role = "tool")
              => /\ retry.log # <<>>
                 /\ retry.log[Len(retry.log)].ok
                 /\ ~CarriesError(retry.log[Len(retry.log)])]_vars

C35_Witness ==
    /\ apc = "calling_tool" /\ retry.pc = "returned" /\ ~retry.result.some
    /\ retry.name = PWord("nao_existe")
    /\ Len(retry.log) = DefaultMaxRetries
    /\ \A k \in DOMAIN retry.log : ~retry.log[k].ok /\ retry.log[k].e.status = 400

\* a line shown to the user that still holds the opening tag of a block
ShowsBlock(line) ==
    "text" \in DOMAIN line /\ \E i \in 1..Len(line.text) : LitAt(line.text, i, OpenTag, FALSE)

\* the second model output of the turn in progress holds a tool call
SummaryHoldsCall ==
    turn.path = "answered" /\ parse_tool_call(turn.summary.text).some

\* C36: a turn makes at most two model calls and at most one tool
\* invocation of at most max_retries attempts, started by the first model
\* output only; a tool call in the second output is not executed: the loop
\* waits for input, the raw output is the recorded assistant turn, and no
\* shown line holds the block.
C36_SecondOutputIsNeverExecuted ==
    /\ turn.model_calls <= 2
    /\ turn.attempts <= DefaultMaxRetries
    /\ retry.pc # "off" => turn.model_calls = 1 /\ retry.attempt <= DefaultMaxRetries
    /\ SummaryHoldsCall =>
           /\ apc = "awaiting_user_input" /\ retry.pc = "off"
           /\ conversation[Len(conversation)].role = "assistant"
           /\ conversation[Len(conversation)].content = Text(turn.summary.text)
           /\ \A k \in DOMAIN shown : ~ShowsBlock(shown[k])

C36_Witness ==
    /\ SummaryHoldsCall /\ turn.model_calls = 2 /\ turn.attempts = 1
    /\ shown = <<Text(<<"Ola", "!">>)>>
    /\ Len(conversation) = turn.base + 4

\* the step reads a question that names a position
ReadsPosition ==
    /\ apc = "awaiting_user_input" /\ turn'.count = turn.count + 1
    /\ ~user_input'.eof /\ ~IsExit(user_input'.text)
    /\ extract_vehicle_id_from_question(user_input'.text).some

\* C37: a question that names a position is answered on the spot when the
\* stored list is not empty: no model call, no tool call, transcript and
\* stored list unchanged, and the loop waits for input again; with an empty
\* stored list the question becomes an ordinary turn sent to the model.
C37_PositionIsAnsweredLocally ==
    [][ReadsPosition =>
          /\ last_vehicle_list' = last_vehicle_list
          /\ retry' = retry /\ retry.pc = "off"
          /\ turn'.model_calls = 0 /\ turn'.attempts = 0
          /\ IF last_vehicle_list # <<>>
             THEN /\ apc' = "awaiting_user_input"
                  /\ turn'.path = "local"
                  /\ conversation' = conversation
                  /\ Len(shown') = 1
             ELSE /\ apc' = "model_call"
                  /\ conversation' = Append(conversation, Turn("user", Text(user_input'.text)))]_vars

C37_Witness ==
    /\ apc = "awaiting_user_input" /\ turn.path = "local" /\ turn.count = 2
    /\ Len(last_vehicle_list) = 2
    /\ extract_vehicle_id_from_question(user_input.text).v = 2
    /\ conversation = <<Turn("system", Text(SYSTEM_PROMPT))>>
    /\ turn.model_calls = 0

C37_WitnessEmpty ==
    /\ apc = "model_call" /\ last_vehicle_list = <<>>
    /\ extract_vehicle_id_from_question(user_input.text).some
    /\ Len(conversation) = 2

\* the tools section sent with the first model call of the turn in progress
SentToolDefs == turn.sent[Len(turn.sent)].content.tool_defs

\* C38: the tools section sent with a first model call lists, for every
\* tool of tools/list that declares properties, those parameters with their
\* types, and presents only the tools without properties as having none.
C38_ToolSectionListsParameters ==
    turn.model_calls = 1 =>
        \A i \in DOMAIN tools :
            \E k \in DOMAIN SentToolDefs :
                /\ SentToolDefs[k].name = tools[i].name
                /\ SentToolDefs[k].none <=> (DOMAIN tools[i].properties = {})
                /\ SentToolDefs[k].params = tools[i].properties

====
